---- MODULE Spec2Model ----
(***************************************************************************)
(* Kiln controller: the Oven actor (lib/oven.py) with its timer            *)
(* (lib/timer.py), virtual clock (lib/oven_time.py), PID controller        *)
(* (lib/pid.py), outputs (lib/gpio_output.py) and the status it reads from *)
(* the temperature sensor (lib/temp_sensor.py).                            *)
(*                                                                         *)
(* Time is counted in whole seconds of the real clock.  Floating point     *)
(* values are kept exact as integers or as numerator/denominator pairs;    *)
(* the one quantity that is rounded is the heater ON interval of a partial *)
(* duty cycle, which is rounded to a whole number of seconds strictly      *)
(* between 0 and the time step so that the comparisons the code makes      *)
(* (> 0, == time_step) keep their outcome.                                 *)
(***************************************************************************)
EXTENDS Integers, Sequences, FiniteSets, TLC

VARIABLES kind, cfg, clock, Time_reference_time, oven, queue, sensor, sent, last, acct

\* The OvenTimer taken by itself with the threads that call it (tm), the
\* OvenWatcher (watcher), a call of a function of the program with its
\* arguments and result (call) and the TempSensorReal thread (temp_sensor).
\* Each is used by the specification that is about it and rests in every
\* other one.
VARIABLES tm, watcher, call, temp_sensor

main == <<kind, cfg, clock, Time_reference_time, oven, queue, sensor, sent, last, acct>>

vars == <<kind, cfg, clock, Time_reference_time, oven, queue, sensor, sent, last, acct,
          tm, watcher, call, temp_sensor>>

(***************************** bounds **************************************)
\* the real clock stops at MaxClock; at most MaxRequests run_profile and
\* abort_run calls are made
MaxClock == 4
MaxRequests == 2

(************************* program constants *******************************)
sensor_time_wait == 2
kiln_must_catch_up_max_error == 5
emergency_shutoff_temp == 2264
pid_kp == 25
pid_ki == 200
pid_kd == 200
window_size == 100
max_bad_percent == 30

(***************************** inputs **************************************)
\* Temperatures the sensor can report: at target 0 (too cold for target 20),
\* inside the PID window below 20, at the shutoff limit.
SensorTemps == {0, 18, emergency_shutoff_temp}
BadPercents == {0, max_bad_percent, max_bad_percent + 1}
Speeds == {2}

\* Profile.data after sorted(): sequences of <<time, temperature>>.
ProfileHold == << <<0, 20>>, <<2, 20>> >>
ProfileRamp == << <<0, 0>>, <<2, 20>> >>
Profiles == {ProfileHold, ProfileRamp}
\* the run_profile calls made: <<profile, start_at_minute>>
RunRequests == {<<ProfileHold, 0>>, <<ProfileRamp, 1>>}
NoProfile == << >>

NoTimer == -1
NoTimers == << >>
NoWatcher == << >>
NoCall == << >>
NoSensor == << >>
NoTime == -1
NoTemp == -1

Max(a, b) == IF a >= b THEN a ELSE b
Min(a, b) == IF a <= b THEN a ELSE b
Abs(a) == IF a < 0 THEN -a ELSE a

(************************* lib/temp_sensor.py ******************************)
TempSensorStatus(t, bp, nc, sg, sv, ue) ==
    [temperature |-> t, bad_percent |-> bp, noConnection |-> nc,
     shortToGround |-> sg, shortToVCC |-> sv, unknownError |-> ue]

\* TempSensorSimulated.status: only the temperature is filled in.
TempSensorSimulated_status(t) == TempSensorStatus(t, 0, FALSE, FALSE, FALSE, FALSE)

\* The statuses TempSensorReal._status is read with: a healthy sensor at every
\* temperature, each fault flag on its own, and the bad percentage on either
\* side of the limit.
RealStatuses ==
    { TempSensorStatus(t, 0, FALSE, FALSE, FALSE, FALSE) : t \in SensorTemps }
    \cup { TempSensorStatus(18, 0, f = 1, f = 2, f = 3, f = 4) : f \in 1..4 }
    \cup { TempSensorStatus(18, bp, FALSE, FALSE, FALSE, FALSE) : bp \in BadPercents }

(**************************** lib/oven.py: Profile *************************)
RECURSIVE MaxTime(_, _)
MaxTime(data, i) ==
    IF i > Len(data) THEN 0
    ELSE IF i = Len(data) THEN data[i][1]
    ELSE Max(data[i][1], MaxTime(data, i + 1))

get_duration(data) == MaxTime(data, 1)

\* First index whose time is greater than time_, 0 when the loop ends
\* without a break.
RECURSIVE FirstLater(_, _, _)
FirstLater(data, time_, i) ==
    IF i > Len(data) THEN 0
    ELSE IF time_ < data[i][1] THEN i
    ELSE FirstLater(data, time_, i + 1)

\* <<prev_point, next_point>>, << >> for (None, None).  data[i-1] with i the
\* first index is Python's data[-1], the last point.
_get_surrounding_points(data, time_) ==
    IF time_ > get_duration(data) THEN << >>
    ELSE LET i == FirstLater(data, time_, 1) IN
         IF i = 0 THEN << >>
         ELSE << (IF i = 1 THEN data[Len(data)] ELSE data[i - 1]), data[i] >>

\* The profiles of the model have slopes that divide exactly at whole
\* seconds, so the integer quotient is the float result.
get_target_temperature(data, time_) ==
    IF time_ > get_duration(data) THEN 0
    ELSE LET sp == _get_surrounding_points(data, time_) IN
         IF sp = << >> THEN 0
         ELSE LET prev_point == sp[1]
                  next_point == sp[2]
              IN prev_point[2] +
                 ((time_ - prev_point[1]) * (next_point[2] - prev_point[2]))
                    \div (next_point[1] - prev_point[1])

(****************************** lib/pid.py *********************************)
\* iterm is kept multiplied by ki: every increment is error * dt * (1/ki).
PID_init(now) == [iterm_ki |-> 0, last_err |-> 0, lastNow |-> now]

\* PID.compute with the integral wound up whatever the error.
PID_compute_AlwaysWindsUp(pid, setpoint, ispoint, now, tiny) ==
    LET time_delta_secs == now - pid.lastNow
        error == setpoint - ispoint
        i_component_ki == IF pid_ki > 0 THEN error * time_delta_secs ELSE 0
        iterm_ki == pid.iterm_ki + i_component_ki
        \* output = kp*error + iterm + kd*(error - last_err)/dt, as N/D
        sgn == IF time_delta_secs < 0 THEN -1 ELSE 1
        N == sgn * (pid_kp * error * pid_ki * time_delta_secs
                    + iterm_ki * time_delta_secs
                    + pid_kd * (error - pid.last_err) * pid_ki)
        D == sgn * pid_ki * time_delta_secs
        \* the same with dt a fraction of a second: N0/D0 is kp*error + iterm
        N0 == pid_kp * error * pid_ki + iterm_ki
        D0 == pid_ki
        d_sign == pid_kd * (error - pid.last_err)
        clamp(n, d) == IF n <= 0 THEN 0
                       ELSE IF n >= window_size * d THEN window_size * d ELSE n
        after == [iterm_ki |-> iterm_ki, last_err |-> error, lastNow |-> now]
    IN IF time_delta_secs = 0 /\ ~tiny
       THEN [pid |-> [pid EXCEPT !.lastNow = now, !.iterm_ki = iterm_ki],
             raised |-> TRUE, num |-> 0, den |-> 1]
       ELSE IF time_delta_secs = 0
       THEN [pid |-> after, raised |-> FALSE,
             num |-> IF d_sign > 0 THEN 1 ELSE IF d_sign < 0 THEN 0
                     ELSE clamp(N0, D0),
             den |-> IF d_sign # 0 THEN 1 ELSE window_size * D0]
       ELSE [pid |-> after, raised |-> FALSE,
             num |-> clamp(N, D), den |-> window_size * D]

\* PID.compute with the integral increment multiplied by ki.
PID_compute_IntegralTimesKi(pid, setpoint, ispoint, now, tiny) ==
    LET time_delta_secs == now - pid.lastNow
        error == setpoint - ispoint
        i_component_ki == IF pid_ki > 0 /\ Abs(pid_kp * error) <= window_size
                          THEN error * time_delta_secs * pid_ki * pid_ki ELSE 0
        iterm_ki == pid.iterm_ki + i_component_ki
        \* output = kp*error + iterm + kd*(error - last_err)/dt, as N/D
        sgn == IF time_delta_secs < 0 THEN -1 ELSE 1
        N == sgn * (pid_kp * error * pid_ki * time_delta_secs
                    + iterm_ki * time_delta_secs
                    + pid_kd * (error - pid.last_err) * pid_ki)
        D == sgn * pid_ki * time_delta_secs
        \* the same with dt a fraction of a second: N0/D0 is kp*error + iterm
        N0 == pid_kp * error * pid_ki + iterm_ki
        D0 == pid_ki
        d_sign == pid_kd * (error - pid.last_err)
        clamp(n, d) == IF n <= 0 THEN 0
                       ELSE IF n >= window_size * d THEN window_size * d ELSE n
        after == [iterm_ki |-> iterm_ki, last_err |-> error, lastNow |-> now]
    IN IF time_delta_secs = 0 /\ ~tiny
       THEN [pid |-> [pid EXCEPT !.lastNow = now, !.iterm_ki = iterm_ki],
             raised |-> TRUE, num |-> 0, den |-> 1]
       ELSE IF time_delta_secs = 0
       THEN [pid |-> after, raised |-> FALSE,
             num |-> IF d_sign > 0 THEN 1 ELSE IF d_sign < 0 THEN 0
                     ELSE clamp(N0, D0),
             den |-> IF d_sign # 0 THEN 1 ELSE window_size * D0]
       ELSE [pid |-> after, raised |-> FALSE,
             num |-> clamp(N, D), den |-> window_size * D]

\* PID.compute.  Result: [pid |-> the controller afterwards,
\* raised |-> TRUE when the division by time_delta_secs = 0 raises,
\* num, den |-> the returned duty fraction num/den in [0,1]].
\* Two reads of the clock within the same second differ by nothing
\* (tiny = FALSE, the division raises) or by a fraction of a second
\* (tiny = TRUE): then the integral increment is negligible and the
\* derivative term, (error - last_err) divided by that fraction, decides
\* the clamped output by its sign alone.
PID_compute(pid, setpoint, ispoint, now, tiny) ==
    LET time_delta_secs == now - pid.lastNow
        error == setpoint - ispoint
        i_component_ki == IF pid_ki > 0 /\ Abs(pid_kp * error) <= window_size
                          THEN error * time_delta_secs ELSE 0
        iterm_ki == pid.iterm_ki + i_component_ki
        \* output = kp*error + iterm + kd*(error - last_err)/dt, as N/D
        sgn == IF time_delta_secs < 0 THEN -1 ELSE 1
        N == sgn * (pid_kp * error * pid_ki * time_delta_secs
                    + iterm_ki * time_delta_secs
                    + pid_kd * (error - pid.last_err) * pid_ki)
        D == sgn * pid_ki * time_delta_secs
        \* the same with dt a fraction of a second: N0/D0 is kp*error + iterm
        N0 == pid_kp * error * pid_ki + iterm_ki
        D0 == pid_ki
        d_sign == pid_kd * (error - pid.last_err)
        clamp(n, d) == IF n <= 0 THEN 0
                       ELSE IF n >= window_size * d THEN window_size * d ELSE n
        after == [iterm_ki |-> iterm_ki, last_err |-> error, lastNow |-> now]
    IN IF time_delta_secs = 0 /\ ~tiny
       THEN [pid |-> [pid EXCEPT !.lastNow = now, !.iterm_ki = iterm_ki],
             raised |-> TRUE, num |-> 0, den |-> 1]
       ELSE IF time_delta_secs = 0
       THEN [pid |-> after, raised |-> FALSE,
             num |-> IF d_sign > 0 THEN 1 ELSE IF d_sign < 0 THEN 0
                     ELSE clamp(N0, D0),
             den |-> IF d_sign # 0 THEN 1 ELSE window_size * D0]
       ELSE [pid |-> after, raised |-> FALSE,
             num |-> clamp(N, D), den |-> window_size * D]

\* float(self.time_step * pid) in whole seconds (see the module comment).
HeatOnSecs(num, den) ==
    IF num = 0 THEN 0
    ELSE IF num = den THEN sensor_time_wait
    ELSE Max(1, Min(sensor_time_wait - 1, (sensor_time_wait * num) \div den))

\* round(pid * 100, 1) in tenths of a percent.
LoadPercent(num, den) == (2 * 1000 * num + den) \div (2 * den)

(**************************** lib/oven_time.py *****************************)
\* Time._speed: set by SimulatedOven.__init__ and again by every accepted
\* _run_profile to the oven's _speed, which is 1 for a RealOven.
Time_speed == IF kind = "sim" THEN cfg.speed ELSE 1

\* Time.now() with the given reference time, at the current real clock.
Time_now(reference_time) ==
    reference_time + Time_speed * (clock - reference_time)

(************************ lib/oven.py: the Oven actor **********************)
Ev(o, e) == [o EXCEPT !.events = Append(@, e)]

\* OvenTimer.stop / OvenTimer.start: the timer field holds the real time at
\* which the armed threading.Timer fires.
OvenTimer_stop(o) == Ev([o EXCEPT !.timer = NoTimer], "timer_stop")

OvenTimer_start(o, interval) ==
    Ev([o EXCEPT !.timer = clock + interval], "timer_start")

\* Output.set on the heat output and RealOven._master_output_set.
Output_set(o, turn_on) ==
    Ev([o EXCEPT !.output = IF turn_on THEN "True" ELSE "False"],
       IF turn_on THEN "heat_on" ELSE "heat_off")

_master_output_set(o, turn_on) ==
    Ev([o EXCEPT !.master_output = IF turn_on THEN "True" ELSE "False"],
       IF turn_on THEN "master_on" ELSE "master_off")

Oven_reset_KeepsPID(o, now) ==
    [OvenTimer_stop(o) EXCEPT
        !.state = "IDLE",
        !.profile = NoProfile,
        !.total_catch_up_secs = 0,
        !.runtime_secs = 0,
        !.total_time_secs = 0,
        !.target_temp = 0,
        !.heat = 0,
        !.load_percent = 0,
        !.are_catching_up = FALSE]

\* Oven._reset without self._timer.stop().
Oven_reset_TimerKept(o, now) ==
    [o EXCEPT
        !.state = "IDLE",
        !.profile = NoProfile,
        !.total_catch_up_secs = 0,
        !.runtime_secs = 0,
        !.total_time_secs = 0,
        !.target_temp = 0,
        !.heat = 0,
        !.load_percent = 0,
        !.pid = PID_init(now),
        !.are_catching_up = FALSE]

\* Oven._reset
Oven_reset(o, now) ==
    [OvenTimer_stop(o) EXCEPT
        !.state = "IDLE",
        !.profile = NoProfile,
        !.total_catch_up_secs = 0,
        !.runtime_secs = 0,
        !.total_time_secs = 0,
        !.target_temp = 0,
        !.heat = 0,
        !.load_percent = 0,
        !.pid = PID_init(now),
        !.are_catching_up = FALSE]

SimulatedOven_reset(o, now) ==
    OvenTimer_start(Oven_reset(o, now), sensor_time_wait \div Time_speed)

RealOven_reset_HeatLeftOn(o, now) ==
    _master_output_set(Oven_reset(o, now), FALSE)

RealOven_reset(o, now) ==
    _master_output_set(Output_set(Oven_reset(o, now), FALSE), FALSE)

_reset(o, now) ==
    IF kind = "sim" THEN SimulatedOven_reset(o, now) ELSE RealOven_reset(o, now)

_run_profile_NoVCCCheck(o, now, status, profile, start_at_minute) ==
    LET o1 == _reset(o, now) IN
    IF status.noConnection THEN Ev(o1, "refused")
    ELSE IF status.shortToGround THEN Ev(o1, "refused")
    ELSE IF status.unknownError THEN Ev(o1, "refused")
    ELSE [o1 EXCEPT
            !.profile = profile,
            !.total_time_secs = get_duration(profile),
            !.start_time = clock,
            !.start_at_secs = start_at_minute * 60,
            !.state = "RUNNING"]

\* Oven._run_profile.  Time.speed_set moves the reference time to the real
\* clock, so the Time.now() that follows it is the real clock.
_run_profile(o, now, status, profile, start_at_minute) ==
    LET o1 == _reset(o, now) IN
    IF status.noConnection THEN Ev(o1, "refused")
    ELSE IF status.shortToGround THEN Ev(o1, "refused")
    ELSE IF status.shortToVCC THEN Ev(o1, "refused")
    ELSE IF status.unknownError THEN Ev(o1, "refused")
    ELSE [o1 EXCEPT
            !.profile = profile,
            !.total_time_secs = get_duration(profile),
            !.start_time = clock,
            !.start_at_secs = start_at_minute * 60,
            !.state = "RUNNING"]

_catch_up_on(o, now) ==
    IF ~o.are_catching_up
    THEN [o EXCEPT !.are_catching_up = TRUE, !.catchup_start_time = now]
    ELSE o

_catch_up_off_NotAccumulated(o, now) ==
    IF o.are_catching_up
    THEN [o EXCEPT !.are_catching_up = FALSE]
    ELSE o

_catch_up_off(o, now) ==
    IF o.are_catching_up
    THEN [o EXCEPT !.are_catching_up = FALSE,
                   !.total_catch_up_secs = @ + (now - o.catchup_start_time)]
    ELSE o

kiln_must_catch_up(o, now, temperature) ==
    IF ~cfg.kiln_must_catch_up THEN _catch_up_off(o, now)
    ELSE LET o1 == [o EXCEPT !.measured = temperature]
             is_too_cold == o.target_temp - temperature > kiln_must_catch_up_max_error
             is_too_hot == temperature - o.target_temp > kiln_must_catch_up_max_error
         IN IF is_too_cold THEN _catch_up_on(o1, now)
            ELSE IF is_too_hot THEN _catch_up_on(o1, now)
            ELSE _catch_up_off(o1, now)

update_runtime_Always(o, now) ==
    LET runtime_delta == Max(0, now - o.start_time)
        runtime == o.start_at_secs + runtime_delta - o.total_catch_up_secs
    IN [o EXCEPT !.runtime_secs = runtime, !.rt = runtime]

update_runtime(o, now) ==
    IF o.are_catching_up THEN [o EXCEPT !.rt = o.runtime_secs]
    ELSE LET runtime_delta == Max(0, now - o.start_time)
             runtime == o.start_at_secs + runtime_delta - o.total_catch_up_secs
         IN [o EXCEPT !.runtime_secs = runtime, !.rt = runtime]

update_target_temp(o) ==
    [o EXCEPT !.target_temp =
        IF o.profile # NoProfile
        THEN get_target_temperature(o.profile, o.runtime_secs) ELSE 0]

should_reset_AboveOnly(status) ==
    \/ status.temperature > emergency_shutoff_temp
    \/ status.noConnection
    \/ status.unknownError
    \/ status.bad_percent > max_bad_percent

should_reset_NoUnknownError(status) ==
    \/ status.temperature >= emergency_shutoff_temp
    \/ status.noConnection
    \/ status.bad_percent > max_bad_percent

should_reset_AtLimit(status) ==
    \/ status.temperature >= emergency_shutoff_temp
    \/ status.noConnection
    \/ status.unknownError
    \/ status.bad_percent >= max_bad_percent

\* should_reset as reset_if_emergency computes it.
should_reset(status) ==
    \/ status.temperature >= emergency_shutoff_temp
    \/ status.noConnection
    \/ status.unknownError
    \/ status.bad_percent > max_bad_percent

reset_if_emergency(o, now, status) ==
    LET o1 == Ev(o, "emergency_check")
        o2 == IF should_reset(status) THEN Ev(o1, "emergency") ELSE o1
    IN IF should_reset(status) /\ ~cfg.ignore_emergencies
       THEN _reset(Ev(o2, "shutting_down"), now)
       ELSE o2

reset_if_schedule_ended_AtEnd(o, now) ==
    IF o.runtime_secs >= o.total_time_secs
    THEN _reset(Ev(o, "schedule_ended"), now)
    ELSE o

reset_if_schedule_ended(o, now) ==
    IF o.runtime_secs > o.total_time_secs
    THEN _reset(Ev(o, "schedule_ended"), now)
    ELSE o

oven_is_running_EveryTick(o) ==
    IF kind = "real" THEN _master_output_set(o, TRUE) ELSE o

\* RealOven.oven_is_running
oven_is_running(o) ==
    IF kind = "real" /\ o.master_output # "True"
    THEN _master_output_set(o, TRUE)
    ELSE o

\* The part of heat_then_cool that follows a PID.compute that returned.
RealOven_heat_decision(o, r) ==
    LET heat_on_secs == HeatOnSecs(r.num, r.den)
        o1 == [o EXCEPT !.pid = r.pid,
                        !.computed = heat_on_secs,
                        !.heat = IF heat_on_secs > 0 THEN 1 ELSE 0,
                        !.load_percent = LoadPercent(r.num, r.den)]
    IN IF heat_on_secs > 0
       THEN [Output_set(o1, TRUE) EXCEPT !.heat_on_secs = heat_on_secs]
       ELSE Output_set(o1, FALSE)

was_100_percent_heating_Never(o) == FALSE

\* was_100_percent_heating as RealOven.heat_then_cool computes it when the
\* output is on.
was_100_percent_heating(o) == (sensor_time_wait - o.heat_on_secs) = 0

\* RealOven.heat_then_cool with the OFF half armed for a whole tick.
RealOven_heat_then_cool_WholeTickOff(o, now, temperature, tiny) ==
    LET was_heating == o.output = "True"
        full == was_heating /\ was_100_percent_heating(o)
        turn_off == was_heating /\ ~full
        found == IF was_heating /\ o.heat_on_secs = sensor_time_wait
                 THEN Ev(o, "found_on_full_tick") ELSE o
        o1 == IF turn_off THEN Output_set(found, FALSE) ELSE found
        r == PID_compute(o.pid, o.target_temp, temperature, now, tiny)
    IN IF ~was_heating \/ full
       THEN IF r.raised
            THEN Ev(Ev([o1 EXCEPT !.pid = r.pid, !.alive = FALSE], "pid"),
                    "raised")
            ELSE LET o2 == RealOven_heat_decision(Ev(o1, "pid"), r)
                     timer_interval == IF o2.output = "True"
                                       THEN o2.heat_on_secs
                                       ELSE sensor_time_wait
                 IN OvenTimer_start(o2, timer_interval)
       ELSE OvenTimer_start(o1, sensor_time_wait)

\* RealOven.heat_then_cool.  A PID.compute that raises ends the oven thread
\* where it stands: the timer is not armed.
RealOven_heat_then_cool(o, now, temperature, tiny) ==
    LET was_heating == o.output = "True"
        full == was_heating /\ was_100_percent_heating(o)
        turn_off == was_heating /\ ~full
        found == IF was_heating /\ o.heat_on_secs = sensor_time_wait
                 THEN Ev(o, "found_on_full_tick") ELSE o
        o1 == IF turn_off THEN Output_set(found, FALSE) ELSE found
        r == PID_compute(o.pid, o.target_temp, temperature, now, tiny)
    IN IF ~was_heating \/ full
       THEN IF r.raised
            THEN Ev(Ev([o1 EXCEPT !.pid = r.pid, !.alive = FALSE], "pid"),
                    "raised")
            ELSE LET o2 == RealOven_heat_decision(Ev(o1, "pid"), r)
                     timer_interval == IF o2.output = "True"
                                       THEN o2.heat_on_secs
                                       ELSE sensor_time_wait
                 IN OvenTimer_start(o2, timer_interval)
       ELSE OvenTimer_start(o1, sensor_time_wait - o.heat_on_secs)

\* SimulatedOven.heat_then_cool; temp_changes writes the new oven
\* temperature into the simulated sensor (see ProcessMessage).
SimulatedOven_heat_then_cool(o, now, temperature, tiny) ==
    LET r == PID_compute(o.pid, o.target_temp, temperature, now, tiny)
        heat_on_secs == HeatOnSecs(r.num, r.den)
    IN IF r.raised
       THEN Ev(Ev([o EXCEPT !.pid = r.pid, !.alive = FALSE], "pid"), "raised")
       ELSE OvenTimer_start(
              Ev(Ev([o EXCEPT !.pid = r.pid,
                              !.computed = heat_on_secs,
                              !.heat = heat_on_secs,
                              !.load_percent = LoadPercent(r.num, r.den)],
                    "pid"), "temp_changes"),
              sensor_time_wait \div Time_speed)

heat_then_cool(o, now, temperature, tiny) ==
    IF kind = "sim" THEN SimulatedOven_heat_then_cool(o, now, temperature, tiny)
    ELSE RealOven_heat_then_cool(o, now, temperature, tiny)

\* SimulatedOven._update_idle_oven; Oven._update_idle_oven does nothing.
_update_idle_oven(o) ==
    IF kind = "sim"
    THEN OvenTimer_start(Ev(o, "temp_changes"), sensor_time_wait \div Time_speed)
    ELSE o

\* Oven._update_oven with the emergency check made before the heating
\* decision.
_update_oven_EmergencyFirst(o, now, r1, r2, r3, tiny) ==
    IF o.state = "RUNNING"
    THEN LET a == oven_is_running([o EXCEPT !.rt0 = o.runtime_secs,
                                            !.target0 = o.target_temp,
                                            !.dur = o.total_time_secs])
             b == kiln_must_catch_up(Ev(a, "catch_up"), now, r1)
             c == update_runtime(Ev(b, "runtime"), now)
             d == update_target_temp(Ev(c, "target"))
             e == reset_if_emergency(d, now, r3)
             f == heat_then_cool(Ev(e, "heat"), now, r2, tiny)
         IN IF ~f.alive THEN f
            ELSE reset_if_schedule_ended(Ev(f, "schedule_check"), now)
    ELSE _update_idle_oven(o)

\* Oven._update_oven.  r1 is the temperature read by kiln_must_catch_up, r2
\* the one read by heat_then_cool, r3 the status read by reset_if_emergency.
_update_oven(o, now, r1, r2, r3, tiny) ==
    IF o.state = "RUNNING"
    THEN LET a == oven_is_running([o EXCEPT !.rt0 = o.runtime_secs,
                                            !.target0 = o.target_temp,
                                            !.dur = o.total_time_secs])
             b == kiln_must_catch_up(Ev(a, "catch_up"), now, r1)
             c == update_runtime(Ev(b, "runtime"), now)
             d == update_target_temp(Ev(c, "target"))
             e == heat_then_cool(Ev(d, "heat"), now, r2, tiny)
         IN IF ~e.alive THEN e
            ELSE reset_if_schedule_ended(
                    Ev(reset_if_emergency(e, now, r3), "schedule_check"), now)
    ELSE _update_idle_oven(o)

(***************************** the state machine ***************************)
Message(code, profile, start_at_minute) ==
    [code |-> code, profile |-> profile, start_at_minute |-> start_at_minute]

SimStatuses == { TempSensorSimulated_status(t) : t \in SensorTemps }

\* The configurations run: a SimulatedOven at speed 2 with the defaults of
\* config.py, a RealOven with the defaults, with emergencies ignored, and
\* with catch-up disabled.
Config(catch_up, ignore, speed) ==
    [kiln_must_catch_up |-> catch_up, ignore_emergencies |-> ignore,
     speed |-> speed]

Configs(k) ==
    IF k = "sim"
    THEN { Config(TRUE, FALSE, sp) : sp \in Speeds }
    ELSE { Config(TRUE, FALSE, 1), Config(TRUE, TRUE, 1),
           Config(FALSE, FALSE, 1) }

\* Oven.__init__ (and RealOven.__init__ before it) up to the first _reset.
Constructed ==
    [state |-> "IDLE", profile |-> NoProfile, total_catch_up_secs |-> 0,
     runtime_secs |-> 0, total_time_secs |-> 0, target_temp |-> 0,
     heat |-> 0, load_percent |-> 0, pid |-> PID_init(0),
     are_catching_up |-> FALSE, catchup_start_time |-> NoTime,
     start_time |-> 0, start_at_secs |-> 0, timer |-> NoTimer,
     output |-> "None", master_output |-> "None", heat_on_secs |-> 0,
     alive |-> TRUE,
     \* what the last processed message did: the commands and log lines in
     \* order, the temperature kiln_must_catch_up read, the runtime, target
     \* and duration on entry to the tick, the runtime after update_runtime
     \* and the ON interval heat_then_cool computed
     events |-> << >>, measured |-> NoTemp, rt0 |-> NoTime, target0 |-> NoTemp,
     dur |-> NoTime, rt |-> NoTime, computed |-> NoTime]

Init ==
    /\ kind \in {"real", "sim"}
    /\ cfg \in Configs(kind)
    /\ clock = 0
    /\ Time_reference_time = 0
    /\ oven = IF kind = "real"
              THEN _reset(_master_output_set(Constructed, FALSE), 0)
              ELSE _reset(Constructed, 0)
    /\ queue = << >>
    /\ sent = 0
    /\ sensor = TempSensorSimulated_status(0)
    /\ last = [code |-> "none", was |-> "IDLE", prev_code |-> "none"]
    /\ acct = [prev |-> NoTime, outside |-> 0, caught |-> 0]
    /\ tm = NoTimers /\ watcher = NoWatcher /\ call = NoCall
    /\ temp_sensor = NoSensor

\* The real clock advances by a second.  The oven thread takes a message
\* within the second it was queued, so a second passes only while the queue
\* is empty; a timer may still fire late.
Advance ==
    /\ clock < MaxClock
    /\ queue = << >>
    /\ clock' = clock + 1
    /\ UNCHANGED <<kind, cfg, Time_reference_time, oven, queue, sensor, sent, last, acct, tm, watcher, call, temp_sensor>>

\* Oven.run_profile, called on another thread.
run_profile ==
    /\ sent < MaxRequests
    /\ sent' = sent + 1
    /\ \E rq \in RunRequests :
          queue' = Append(queue, Message("RUN_PROFILE", rq[1], rq[2]))
    /\ UNCHANGED <<kind, cfg, clock, Time_reference_time, oven, sensor, last, acct, tm, watcher, call, temp_sensor>>

\* Oven.abort_run, called on another thread.
abort_run ==
    /\ sent < MaxRequests
    /\ sent' = sent + 1
    /\ queue' = Append(queue, Message("ABORT_RUN", NoProfile, 0))
    /\ UNCHANGED <<kind, cfg, clock, Time_reference_time, oven, sensor, last, acct, tm, watcher, call, temp_sensor>>

\* The armed threading.Timer fires: Oven._timeout on the timer's thread.
_timeout ==
    /\ oven.timer # NoTimer
    /\ clock >= oven.timer
    /\ queue' = Append(queue, Message("EXPIRED_TIMER", NoProfile, 0))
    /\ oven' = [oven EXCEPT !.timer = NoTimer]
    /\ UNCHANGED <<kind, cfg, clock, Time_reference_time, sensor, sent, last, acct, tm, watcher, call, temp_sensor>>

\* The bookkeeping the catch-up properties are stated against: the virtual
\* time of the previous running tick, and the virtual time that passed
\* between running ticks split by whether the oven was catching up when the
\* interval began.
Account(a, was_catching_up, now) ==
    [prev |-> now,
     outside |-> a.outside + (IF was_catching_up THEN 0 ELSE now - a.prev),
     caught |-> a.caught + (IF was_catching_up THEN now - a.prev ELSE 0)]

\* Oven.run: one message is taken from the queue and processed by
\* Oven._process_message.  A RealOven reads the sensor's status where the
\* code asks for it: s is the status the TempSensor thread answers with
\* while this message is processed.  A SimulatedOven reads the temperature
\* it wrote itself, and temp_changes writes the next one, t.  Afterwards
\* sensor is the status the oven read last.
ProcessMessage ==
    /\ oven.alive
    /\ queue # << >>
    /\ Head(queue).code # "GET_STATE"
    /\ LET msg == Head(queue)
           reads == msg.code = "RUN_PROFILE" \/
                    (msg.code = "EXPIRED_TIMER" /\ oven.state = "RUNNING")
           steps == msg.code \in {"RUN_PROFILE", "EXPIRED_TIMER"}
           o0 == [oven EXCEPT !.events = << >>, !.measured = NoTemp,
                              !.rt0 = NoTime, !.target0 = NoTemp,
                              !.dur = NoTime, !.rt = NoTime,
                              !.computed = NoTime]
           now0 == Time_now(Time_reference_time)
       IN \E s \in (IF kind = "real" /\ reads THEN RealStatuses ELSE {sensor}),
             t \in (IF kind = "sim" /\ steps THEN SensorTemps
                    ELSE {sensor.temperature}),
             tiny \in (IF reads /\ (msg.code = "RUN_PROFILE" \/
                                     now0 = oven.pid.lastNow)
                      THEN BOOLEAN ELSE {FALSE}) :
            LET entered == IF msg.code = "RUN_PROFILE"
                           THEN _run_profile(o0, now0, s, msg.profile,
                                             msg.start_at_minute)
                           ELSE o0
            IN \E pre \in {entered} :
               LET accepted == msg.code = "RUN_PROFILE" /\ pre.state = "RUNNING"
                   running_tick == steps /\ pre.state = "RUNNING"
                   ref == IF accepted THEN clock ELSE Time_reference_time
                   now == Time_now(ref)
                   \* the status reset_if_emergency reads
                   r3 == IF kind = "sim" THEN TempSensorSimulated_status(t) ELSE s
                   result == IF msg.code = "ABORT_RUN" THEN _reset(o0, now0)
                             ELSE IF steps
                             THEN _update_oven(pre, now, s.temperature,
                                               s.temperature, r3, tiny)
                             ELSE o0
               IN \E o1 \in {result} :
                  LET has(e) == \E i \in 1..Len(o1.events) : o1.events[i] = e IN
                  /\ oven' = o1
                  /\ Time_reference_time' = ref
                  /\ sensor' = IF kind = "sim"
                               THEN (IF has("temp_changes") THEN r3 ELSE sensor)
                               ELSE s
                  /\ last' = [code |-> msg.code, was |-> oven.state,
                              prev_code |-> last.code]
                  /\ acct' = IF o1.state = "IDLE"
                             THEN [prev |-> NoTime, outside |-> 0, caught |-> 0]
                             ELSE IF ~running_tick THEN acct
                             ELSE Account(IF accepted
                                          THEN [prev |-> now, outside |-> 0,
                                                caught |-> 0]
                                          ELSE acct,
                                          pre.are_catching_up, now)
    /\ queue' = Tail(queue)
    /\ UNCHANGED <<kind, cfg, clock, sent, tm, watcher, call, temp_sensor>>

Next ==
    \/ Advance
    \/ run_profile
    \/ abort_run
    \/ _timeout
    \/ ProcessMessage

Spec == Init /\ [][Next]_vars

TypeOK ==
    /\ oven.state \in {"IDLE", "RUNNING"}
    /\ oven.output \in {"None", "True", "False"}
    /\ oven.master_output \in {"None", "True", "False"}
    /\ clock \in 0..MaxClock
    /\ Len(queue) <= 2 * MaxRequests + 1

(******************************* properties ********************************)
\* The events of the last processed message.
Has(e) == \E i \in 1..Len(oven.events) : oven.events[i] = e

\* Event e occurs at position i after an earlier event of the set es.
Follows(i, es) == \E j \in 1..(i - 1) : oven.events[j] \in es

AnyFaultFlag(status) ==
    \/ status.noConnection
    \/ status.shortToGround
    \/ status.shortToVCC
    \/ status.unknownError

\* This step is the oven thread processing a message with the given code.
Processed(code) ==
    /\ oven.alive
    /\ queue # << >>
    /\ Head(queue).code = code
    /\ queue' = Tail(queue)

\* C1: a RunProfile processed while Idle ends Running only if the status read
\* while it was processed has no fault flag; with any fault flag set the oven
\* stays Idle, stores no profile and energizes no output.
C1_RunProfileGuard ==
    (last.code = "RUN_PROFILE" /\ last.was = "IDLE") =>
        /\ oven.state = "RUNNING" => ~AnyFaultFlag(sensor)
        /\ AnyFaultFlag(sensor) =>
             /\ oven.state = "IDLE"
             /\ oven.profile = NoProfile
             /\ ~Has("heat_on") /\ ~Has("master_on")
             /\ oven.output # "True" /\ oven.master_output # "True"

C1_Witness ==
    /\ kind = "real"
    /\ last.code = "RUN_PROFILE" /\ last.was = "IDLE"
    /\ sensor.shortToVCC /\ Has("refused")
    /\ oven.state = "IDLE"

\* C2: a running tick whose status temperature is at or above the shutoff
\* temperature ends Idle when emergencies are not ignored; when they are
\* ignored no emergency reset happens and the state stays Running unless the
\* schedule ended on that tick.
C2_OverTemperature ==
    (Has("emergency_check") /\ sensor.temperature >= emergency_shutoff_temp) =>
        IF cfg.ignore_emergencies
        THEN ~Has("shutting_down") /\
             (oven.state = "RUNNING" \/ Has("schedule_ended"))
        ELSE oven.state = "IDLE"

C2_Witness ==
    /\ Has("emergency_check") /\ Has("shutting_down")
    /\ sensor.temperature >= emergency_shutoff_temp
    /\ ~cfg.ignore_emergencies
    /\ oven.state = "IDLE"

\* C3 as stated: with emergencies not ignored, a running tick whose status
\* has any of the four fault flags set ends Idle.
C3_AnyFaultResets ==
    (Has("emergency_check") /\ ~cfg.ignore_emergencies /\ AnyFaultFlag(sensor))
        => oven.state = "IDLE"

\* C3 amended: noConnection and unknownError each end the run; shortToGround
\* or shortToVCC alone leave the oven Running.
C3_ConnectionOrUnknownResets ==
    (Has("emergency_check") /\ ~cfg.ignore_emergencies) =>
        /\ (sensor.noConnection \/ sensor.unknownError) => oven.state = "IDLE"
        /\ ( /\ sensor.shortToGround \/ sensor.shortToVCC
             /\ ~sensor.noConnection /\ ~sensor.unknownError
             /\ sensor.temperature < emergency_shutoff_temp
             /\ sensor.bad_percent <= max_bad_percent
             /\ ~Has("schedule_ended") ) => oven.state = "RUNNING"

C3_Witness ==
    /\ Has("emergency_check") /\ ~cfg.ignore_emergencies
    /\ sensor.unknownError /\ ~sensor.noConnection
    /\ sensor.temperature < emergency_shutoff_temp
    /\ sensor.bad_percent <= max_bad_percent
    /\ oven.state = "IDLE" /\ Has("shutting_down")

\* C4: with emergencies not ignored, a running tick whose status has
\* bad_percent > 30 ends Idle; bad_percent <= 30 with the temperature below
\* the shutoff and no connection or unknown error does not end the run.
C4_BadPercent ==
    (Has("emergency_check") /\ ~cfg.ignore_emergencies) =>
        /\ sensor.bad_percent > max_bad_percent => oven.state = "IDLE"
        /\ ( /\ sensor.bad_percent <= max_bad_percent
             /\ sensor.temperature < emergency_shutoff_temp
             /\ ~sensor.noConnection /\ ~sensor.unknownError )
             => ~Has("shutting_down") /\
                (oven.state = "RUNNING" \/ Has("schedule_ended"))

C4_Witness ==
    /\ Has("emergency_check") /\ ~cfg.ignore_emergencies
    /\ sensor.bad_percent > max_bad_percent
    /\ sensor.temperature < emergency_shutoff_temp
    /\ ~AnyFaultFlag(sensor)
    /\ oven.state = "IDLE" /\ Has("shutting_down")

\* C5: processing AbortRun leaves the oven Idle, and an Idle oven stays Idle
\* with its outputs off through every step that is not the processing of a
\* RunProfile, in particular through a timer expiry left over from the run.
C5_AbortStaysIdle ==
    [][ /\ Processed("ABORT_RUN") => oven'.state = "IDLE"
        /\ (oven.state = "IDLE" /\ ~Processed("RUN_PROFILE")) =>
              /\ oven'.state = "IDLE"
              /\ oven'.output # "True"
              /\ oven'.master_output # "True" ]_vars

C5_Witness ==
    /\ kind = "real"
    /\ last.prev_code = "ABORT_RUN"
    /\ last.code = "EXPIRED_TIMER" /\ last.was = "IDLE"
    /\ oven.state = "IDLE"

\* C6: a running tick that reaches the schedule check ends the run by
\* schedule completion exactly when the runtime of that tick is greater than
\* the profile duration (and no emergency reset came first); a runtime within
\* the duration and no emergency reset leaves the oven Running.
C6_ScheduleEnd ==
    Has("schedule_check") =>
        /\ Has("schedule_ended") <=> (oven.rt > oven.dur /\ ~Has("shutting_down"))
        /\ oven.rt > oven.dur => oven.state = "IDLE"
        /\ (oven.rt <= oven.dur /\ ~Has("shutting_down")) => oven.state = "RUNNING"

C6_Witness ==
    /\ last.code = "EXPIRED_TIMER"
    /\ Has("schedule_ended")
    /\ oven.rt > oven.dur
    /\ oven.state = "IDLE"

CatchUpNeeded ==
    /\ Has("runtime")
    /\ cfg.kiln_must_catch_up
    /\ Abs(oven.target0 - oven.measured) > kiln_must_catch_up_max_error

\* C7 as stated: on a running tick with |target - measured| above the
\* tolerance the runtime at the end of the tick is the runtime before it.
C7_RuntimeKept ==
    CatchUpNeeded => oven.runtime_secs = oven.rt0

\* C7 amended: on such a tick update_runtime leaves the runtime as it was,
\* and it is still that value at the end of the tick unless the tick ended
\* the run; the runtime grows only on a tick within the tolerance.
C7_RuntimeFrozen ==
    (Has("runtime") /\ cfg.kiln_must_catch_up) =>
        /\ CatchUpNeeded =>
             /\ oven.rt = oven.rt0
             /\ oven.state = "RUNNING" => oven.runtime_secs = oven.rt0
        /\ oven.rt > oven.rt0 =>
             Abs(oven.target0 - oven.measured) <= kiln_must_catch_up_max_error

C7_Witness ==
    /\ CatchUpNeeded
    /\ oven.state = "RUNNING" /\ oven.are_catching_up
    /\ oven.rt0 > 0 /\ oven.runtime_secs = oven.rt0

C9_FullDutyOffOnlyAtZero ==
    Has("found_on_full_tick") =>
        \A i \in 1..Len(oven.events) :
            oven.events[i] = "heat_off" =>
                Follows(i, {"pid"}) /\ oven.computed = 0

\* C9 amended: on a tick that finds the heater at 100% duty the output is
\* not switched off before the PID is computed, and it is switched off on
\* that tick only if the computed ON interval is 0 or the tick ended the run
\* (emergency or schedule end), whose reset switches the output off whatever
\* the PID computed.
C9_FullDutyOff ==
    Has("found_on_full_tick") =>
        \A i \in 1..Len(oven.events) :
            oven.events[i] = "heat_off" =>
                /\ Follows(i, {"pid"})
                /\ oven.computed = 0 \/ Follows(i, {"shutting_down", "schedule_ended"})

C9_Witness ==
    /\ kind = "real"
    /\ Has("found_on_full_tick") /\ Has("pid")
    /\ oven.computed > 0
    /\ ~Has("heat_off")
    /\ oven.output = "True"

\* C10: an Idle oven is a reset oven: no profile, runtime, total time, target,
\* heat, load percent and catch-up total zero, not catching up, a fresh PID;
\* a RealOven has both outputs off and no timer armed.
C10_IdleIsReset ==
    oven.state = "IDLE" =>
        /\ oven.profile = NoProfile
        /\ oven.runtime_secs = 0 /\ oven.total_time_secs = 0
        /\ oven.target_temp = 0 /\ oven.heat = 0 /\ oven.load_percent = 0
        /\ oven.total_catch_up_secs = 0 /\ ~oven.are_catching_up
        /\ oven.pid.iterm_ki = 0 /\ oven.pid.last_err = 0
        /\ kind = "real" =>
             /\ oven.output = "False" /\ oven.master_output = "False"
             /\ oven.timer = NoTimer

C10_Witness ==
    /\ kind = "real"
    /\ last.code = "EXPIRED_TIMER" /\ last.was = "RUNNING"
    /\ Has("shutting_down") /\ Has("pid")
    /\ oven.state = "IDLE"

\* How often event e occurs among the events of the last processed message.
Count(e) == Cardinality({ i \in 1..Len(oven.events) : oven.events[i] = e })

\* C11: a RealOven commands the master enable output ON exactly once in the
\* message that starts a run (the RunProfile message, whose first running
\* tick it is) and in no other message: not at construction, not on a refused
\* RunProfile, not on a later tick of the run.
C11_MasterOnOncePerRun ==
    kind = "real" =>
        Count("master_on") =
            (IF last.code = "RUN_PROFILE" /\ Has("catch_up") THEN 1 ELSE 0)

C11_Witness ==
    /\ kind = "real"
    /\ last.code = "EXPIRED_TIMER" /\ last.was = "RUNNING"
    /\ last.prev_code = "EXPIRED_TIMER"
    /\ oven.state = "RUNNING" /\ oven.master_output = "True"
    /\ Has("heat") /\ ~Has("master_on")

(******************** lib/timer.py: OvenTimer by itself *********************)
\* The main variables at rest, as constructed, for the specifications that
\* are about one part of the program only.
MainRest(k) ==
    /\ kind = k
    /\ cfg = Config(TRUE, FALSE, 1)
    /\ clock = 0
    /\ Time_reference_time = 0
    /\ oven = Constructed
    /\ queue = << >>
    /\ sent = 0
    /\ sensor = TempSensorSimulated_status(0)
    /\ last = [code |-> "none", was |-> "IDLE", prev_code |-> "none"]
    /\ acct = [prev |-> NoTime, outside |-> 0, caught |-> 0]

\* The threads that call the oven's OvenTimer: the Oven thread from its
\* handlers, and the thread that leaves the `with` block, whose
\* Oven.__exit__ calls _reset (stop, and for a SimulatedOven start after it).
TimerThreads == {"oven", "caller"}

\* at most MaxTimerCalls calls of start or stop are made by the Oven thread
MaxTimerCalls == 3

\* A threading.Timer: started by start(), finished once cancel() was called
\* or its function has run.
NewTimer == [started |-> FALSE, finished |-> FALSE]

\* tm._timer is OvenTimer._timer: 0 for None, else the index of the Timer in
\* tm.objs, the Timers created so far.  tm.pc[t] is the line of timer.py
\* thread t is about to execute ("idle" outside of a call, "raised" after an
\* exception); tm.todo is what the caller thread's _reset has left to call.
InitTimer ==
    /\ \E k \in {"real", "sim"} : MainRest(k)
    /\ tm = [_timer |-> 0, objs |-> << >>,
             pc |-> [t \in TimerThreads |-> "idle"],
             calls |-> 0,
             todo |-> << >>]
    /\ watcher = NoWatcher /\ call = NoCall
    /\ temp_sensor = NoSensor

Armed == { i \in 1..Len(tm.objs) : tm.objs[i].started /\ ~tm.objs[i].finished }

\* The Oven thread calls start or stop.
OvenTimer_call ==
    /\ tm.pc["oven"] = "idle"
    /\ tm.calls < MaxTimerCalls
    /\ \E m \in {"L13", "L19"} :
          tm' = [tm EXCEPT !.pc["oven"] = m, !.calls = @ + 1]
    /\ UNCHANGED <<main, watcher, call, temp_sensor>>

\* Oven.__exit__ on the thread that leaves the `with` block: _reset.
Oven_exit_reset ==
    /\ tm.pc["caller"] = "idle"
    /\ tm.todo = << >>
    /\ tm.calls > 0
    /\ tm' = [tm EXCEPT !.pc["caller"] = "L19",
                        !.todo = IF kind = "sim" THEN <<"L13", "done">>
                                 ELSE <<"done">>]
    /\ UNCHANGED <<main, watcher, call, temp_sensor>>

\* the caller's _reset goes on from stop() to SimulatedOven._reset's start()
Oven_exit_next ==
    /\ tm.pc["caller"] = "idle"
    /\ tm.todo # << >> /\ Head(tm.todo) # "done"
    /\ tm' = [tm EXCEPT !.pc["caller"] = Head(tm.todo), !.todo = Tail(@)]
    /\ UNCHANGED <<main, watcher, call, temp_sensor>>

\* threading.Timer.cancel
Timer_cancel(objs, i) == [objs EXCEPT ![i].finished = TRUE]

\* OvenTimer.start, one line of timer.py at a time.  Line 14 and line 16 read
\* self._timer again: None raises AttributeError, and starting a Timer a
\* second time raises RuntimeError.
OvenTimer_start_line(t) ==
    \/ /\ tm.pc[t] = "L13"
       /\ tm' = [tm EXCEPT !.pc[t] = IF tm._timer # 0 THEN "L14" ELSE "L15"]
    \/ /\ tm.pc[t] = "L14"
       /\ tm' = IF tm._timer = 0
                THEN [tm EXCEPT !.pc[t] = "raised"]
                ELSE [tm EXCEPT !.objs = Timer_cancel(@, tm._timer),
                                !.pc[t] = "L15"]
    \/ /\ tm.pc[t] = "L15"
       /\ tm' = [tm EXCEPT !.objs = Append(@, NewTimer),
                           !._timer = Len(tm.objs) + 1,
                           !.pc[t] = "L16"]
    \/ /\ tm.pc[t] = "L16"
       /\ tm' = IF tm._timer = 0 \/ tm.objs[tm._timer].started
                THEN [tm EXCEPT !.pc[t] = "raised"]
                ELSE [tm EXCEPT !.objs[tm._timer].started = TRUE,
                                !.pc[t] = "idle"]

\* OvenTimer.stop, one line at a time.
OvenTimer_stop_line(t) ==
    \/ /\ tm.pc[t] = "L19"
       /\ tm' = [tm EXCEPT !.pc[t] = IF tm._timer # 0 THEN "L20" ELSE "idle"]
    \/ /\ tm.pc[t] = "L20"
       /\ tm' = IF tm._timer = 0
                THEN [tm EXCEPT !.pc[t] = "raised"]
                ELSE [tm EXCEPT !.objs = Timer_cancel(@, tm._timer),
                                !.pc[t] = "L21"]
    \/ /\ tm.pc[t] = "L21"
       /\ tm' = [tm EXCEPT !._timer = 0, !.pc[t] = "idle"]

OvenTimer_start_step ==
    /\ \E t \in TimerThreads : OvenTimer_start_line(t)
    /\ UNCHANGED <<main, watcher, call, temp_sensor>>

OvenTimer_stop_step ==
    /\ \E t \in TimerThreads : OvenTimer_stop_line(t)
    /\ UNCHANGED <<main, watcher, call, temp_sensor>>

\* An armed Timer fires: its thread calls Oven._timeout, which sends
\* EXPIRED_TIMER, and the Timer is finished.
Timer_fire ==
    /\ \E i \in Armed :
          tm' = [tm EXCEPT !.objs[i].finished = TRUE]
    /\ queue' = Append(queue, Message("EXPIRED_TIMER", NoProfile, 0))
    /\ UNCHANGED <<kind, cfg, clock, Time_reference_time, oven, sensor, sent,
                   last, acct, watcher, call, temp_sensor>>

NextTimer ==
    \/ OvenTimer_call
    \/ Oven_exit_reset
    \/ Oven_exit_next
    \/ OvenTimer_start_step
    \/ OvenTimer_stop_step
    \/ Timer_fire

SpecTimer == InitTimer /\ [][NextTimer]_vars

\* C12: at most one Timer of the OvenTimer is armed (started, not fired, not
\* cancelled) at any time and it is the one the OvenTimer refers to, so that
\* start() and stop() cancel it; a fire appends one EXPIRED_TIMER message to
\* the oven's queue and changes nothing else of the oven.
C12_OnePending ==
    /\ Cardinality(Armed) <= 1
    /\ \A i \in Armed : i = tm._timer
    /\ \A i \in 1..Len(queue) : queue[i].code = "EXPIRED_TIMER"
    /\ oven = Constructed

(************* lib/oven.py: leaving the `with` block, __exit__ **************)
\* Oven.__exit__, on the thread that leaves `with create_oven() as oven:`
\* while the Oven thread (a daemon, started by __enter__) is still running:
\* it calls self._reset() itself instead of sending a message.  The main
\* thread returns after it and the process ends.
Oven_exit ==
    /\ last.code # "exit"
    /\ LET o0 == [oven EXCEPT !.events = << >>, !.measured = NoTemp,
                              !.rt0 = NoTime, !.target0 = NoTemp,
                              !.dur = NoTime, !.rt = NoTime,
                              !.computed = NoTime]
       IN oven' = _reset(o0, Time_now(Time_reference_time))
    /\ last' = [code |-> "exit", was |-> oven.state, prev_code |-> last.code]
    /\ acct' = [prev |-> NoTime, outside |-> 0, caught |-> 0]
    /\ UNCHANGED <<kind, cfg, clock, Time_reference_time, queue, sensor, sent,
                   tm, watcher, call, temp_sensor>>

\* the program until the process ends
Running == last.code # "exit" /\ Next

NextExit ==
    \/ Running
    \/ Oven_exit

SpecExit == Init /\ [][NextExit]_vars

\* The oven's private state: the fields of the Oven, its PID, its OvenTimer
\* and its outputs.
Private(o) ==
    [state |-> o.state, profile |-> o.profile,
     total_catch_up_secs |-> o.total_catch_up_secs,
     runtime_secs |-> o.runtime_secs, total_time_secs |-> o.total_time_secs,
     target_temp |-> o.target_temp, heat |-> o.heat,
     load_percent |-> o.load_percent, pid |-> o.pid,
     are_catching_up |-> o.are_catching_up,
     catchup_start_time |-> o.catchup_start_time,
     start_time |-> o.start_time, start_at_secs |-> o.start_at_secs,
     timer |-> o.timer, output |-> o.output,
     master_output |-> o.master_output, heat_on_secs |-> o.heat_on_secs]

\* the Oven thread takes a message from its queue and processes it
OvenThreadStep == oven.alive /\ queue # << >> /\ queue' = Tail(queue)

\* a Timer ran out: its thread sent EXPIRED_TIMER and wrote nothing
TimerThreadStep ==
    /\ queue' = Append(queue, Message("EXPIRED_TIMER", NoProfile, 0))
    /\ Private(oven)' = [Private(oven) EXCEPT !.timer = NoTimer]

\* C13: once the Oven thread has started, the oven's private state (state,
\* profile, runtime, catch-up fields, PID, timer, heat and master outputs)
\* changes only in a step of the Oven thread processing a message; no other
\* thread writes it.
C13_OnlyOvenThreadWrites ==
    [][Private(oven)' # Private(oven) => OvenThreadStep \/ TimerThreadStep]_vars

(************* lib/ovenWatcher.py and Oven.runtime_info: GET_STATE **********)
\* str.capitalize() of the name of an OvenState
capitalize(name) ==
    CASE name = "IDLE" -> "Idle"
      [] name = "RUNNING" -> "Running"
      [] OTHER -> name

\* Oven._runtime_info, the snapshot: its state, runtime and target entries.
_runtime_info(o) ==
    [state |-> capitalize(o.state), runtime |-> o.runtime_secs,
     target |-> o.target_temp]

\* The threads that call Oven.runtime_info, each blocking on a Queue of its
\* own: the OvenWatcher thread in run, and the web thread in
\* OvenWatcher.record.
Requesters == {"watcher", "web"}

\* the GET_STATE message of requester r; its data is r's reply Queue
GetStateMessage(r) ==
    [code |-> "GET_STATE", profile |-> NoProfile, start_at_minute |-> 0,
     reply |-> r]

\* OvenWatcher.notify_all without observers (see WatcherObservers below for
\* the broadcast itself)
NoObservers == << >>

\* OvenWatcher.__init__, with the Oven thread started.  watcher.pc is where
\* each requester is, watcher.q the contents of its reply Queue,
\* watcher.profile the profile _OvenCallbacks.run_profile was called with
\* and watcher.next the real time at which time.sleep returns.
InitWatch ==
    /\ kind = "real"
    /\ cfg = Config(TRUE, FALSE, 1)
    /\ clock = 0
    /\ Time_reference_time = 0
    /\ oven = IF kind = "real"
              THEN _reset(_master_output_set(Constructed, FALSE), 0)
              ELSE _reset(Constructed, 0)
    /\ queue = << >>
    /\ sent = 0
    /\ sensor = TempSensorSimulated_status(0)
    /\ last = [code |-> "none", was |-> "IDLE", prev_code |-> "none"]
    /\ acct = [prev |-> NoTime, outside |-> 0, caught |-> 0]
    /\ tm = NoTimers /\ call = NoCall
    /\ temp_sensor = NoSensor
    /\ watcher = [pc |-> [watcher |-> "poll", web |-> "idle"],
                  q |-> [r \in Requesters |-> << >>],
                  profile |-> NoProfile,
                  last_profile |-> NoProfile, last_log |-> << >>,
                  recording |-> FALSE, observers |-> NoObservers,
                  next |-> 0]

\* Oven.runtime_info up to q.get(): requester r sends GET_STATE
runtime_info(r) == queue' = Append(queue, GetStateMessage(r))

\* OvenWatcher.run, line 40: the watcher thread asks for the oven's state
Watcher_poll ==
    /\ watcher.pc["watcher"] = "poll"
    /\ clock >= watcher.next
    /\ runtime_info("watcher")
    /\ watcher' = [watcher EXCEPT !.pc["watcher"] = "wait"]
    /\ UNCHANGED <<kind, cfg, clock, Time_reference_time, oven, sensor, sent,
                   last, acct, tm, call, temp_sensor>>

\* Oven._process_message, the GET_STATE branch, on the Oven thread
GetState ==
    /\ oven.alive
    /\ queue # << >>
    /\ Head(queue).code = "GET_STATE"
    /\ watcher' = [watcher EXCEPT
                      !.q[Head(queue).reply] = Append(@, _runtime_info(oven))]
    /\ queue' = Tail(queue)
    /\ UNCHANGED <<kind, cfg, clock, Time_reference_time, oven, sensor, sent,
                   last, acct, tm, call, temp_sensor>>

\* OvenWatcher.run, lines 40 to 48: q.get() returns the snapshot, the
\* watcher appends it or stops recording, broadcasts it and sleeps.
Watcher_run ==
    /\ watcher.pc["watcher"] = "wait"
    /\ watcher.q["watcher"] # << >>
    /\ LET oven_state == Head(watcher.q["watcher"])
       IN watcher' = [watcher EXCEPT
             !.q["watcher"] = Tail(@),
             !.last_log = IF oven_state.state = "RUNNING"
                          THEN Append(@, oven_state) ELSE @,
             !.recording = IF oven_state.state = "RUNNING" THEN @ ELSE FALSE,
             !.next = clock + sensor_time_wait,
             !.pc["watcher"] = "poll"]
    /\ UNCHANGED <<main, tm, call, temp_sensor>>

\* _OvenCallbacks.run_profile on the web thread: oven.run_profile ...
Callbacks_run_profile ==
    /\ watcher.pc["web"] = "idle"
    /\ sent < MaxRequests
    /\ sent' = sent + 1
    /\ \E rq \in RunRequests :
          /\ queue' = Append(queue, Message("RUN_PROFILE", rq[1], rq[2]))
          /\ watcher' = [watcher EXCEPT !.pc["web"] = "record",
                                        !.profile = rq[1]]
    /\ UNCHANGED <<kind, cfg, clock, Time_reference_time, oven, sensor, last,
                   acct, tm, call, temp_sensor>>

\* OvenWatcher.record without `self.last_log = []`.
Watcher_record_KeepsLog ==
    /\ watcher.pc["web"] = "record"
    /\ runtime_info("web")
    /\ watcher' = [watcher EXCEPT !.last_profile = watcher.profile,
                                  !.profile = NoProfile,
                                  !.recording = TRUE,
                                  !.pc["web"] = "wait"]
    /\ UNCHANGED <<kind, cfg, clock, Time_reference_time, oven, sensor, sent,
                   last, acct, tm, call, temp_sensor>>

\* ... then OvenWatcher.record up to the q.get() of runtime_info ...
Watcher_record ==
    /\ watcher.pc["web"] = "record"
    /\ runtime_info("web")
    /\ watcher' = [watcher EXCEPT !.last_profile = watcher.profile,
                                  !.profile = NoProfile,
                                  !.last_log = << >>, !.recording = TRUE,
                                  !.pc["web"] = "wait"]
    /\ UNCHANGED <<kind, cfg, clock, Time_reference_time, oven, sensor, sent,
                   last, acct, tm, call, temp_sensor>>

\* ... and its last line: the snapshot is appended to the emptied log.
Watcher_record_append ==
    /\ watcher.pc["web"] = "wait"
    /\ watcher.q["web"] # << >>
    /\ watcher' = [watcher EXCEPT
          !.q["web"] = Tail(@),
          !.last_log = Append(@, Head(watcher.q["web"])),
          !.pc["web"] = "idle"]
    /\ UNCHANGED <<main, tm, call, temp_sensor>>

\* _OvenCallbacks.abort_run on the web thread
Callbacks_abort_run == watcher.pc["web"] = "idle" /\ abort_run

\* time.sleep(self._interval) in OvenWatcher.run: a second passes, and the
\* watcher thread wakes when its interval is over
Watcher_sleep ==
    /\ ~(watcher.pc["watcher"] = "poll" /\ clock >= watcher.next)
    /\ Advance

NextWatch ==
    \/ Watcher_sleep
    \/ Callbacks_abort_run
    \/ _timeout
    \/ ProcessMessage
    \/ Watcher_poll
    \/ GetState
    \/ Watcher_run
    \/ Callbacks_run_profile
    \/ Watcher_record
    \/ Watcher_record_append

SpecWatch == InitWatch /\ [][NextWatch]_vars


\* the Oven thread takes a GET_STATE message from its queue
GetStateStep ==
    queue # << >> /\ Head(queue).code = "GET_STATE" /\ queue' = Tail(queue)

\* C14: every GET_STATE request sent to the oven, in either state, is
\* answered with exactly one snapshot on the requester's own reply Queue: a
\* queued request has a live Oven thread to take it, the step that takes it
\* puts _runtime_info of the oven as it is then on the Queue of the requester
\* named in the message and changes nothing of the oven's private state, and
\* a reply Queue holds at most one snapshot, for a requester that waits.
C14_GetStateAnswered ==
    [][/\ (\E i \in 1..Len(queue') : queue'[i].code = "GET_STATE")
             => oven'.alive
       /\ GetStateStep =>
             /\ Private(oven)' = Private(oven)
             /\ \A r \in Requesters :
                   watcher'.q[r] =
                      IF r = Head(queue).reply
                      THEN Append(watcher.q[r], _runtime_info(oven))
                      ELSE watcher.q[r]
       /\ \A r \in Requesters :
             /\ Len(watcher'.q[r]) <= 1
             /\ watcher'.q[r] # << >> => watcher'.pc[r] = "wait"]_vars

\* C15: on a watcher poll whose snapshot comes from an oven in state RUNNING
\* the snapshot is appended to last_log, which grows by one entry; on a poll
\* whose snapshot is not from a running oven nothing is appended and
\* recording is false afterwards.
C15_RunningPollsLogged ==
    [][(watcher.pc["watcher"] = "wait" /\ watcher'.pc["watcher"] = "poll") =>
          LET oven_state == Head(watcher.q["watcher"])
          IN IF oven_state.state = capitalize("RUNNING")
             THEN watcher'.last_log = Append(watcher.last_log, oven_state)
             ELSE /\ watcher'.last_log = watcher.last_log
                  /\ ~watcher'.recording]_vars


(************* lib/ovenWatcher.py: the observers and notify_all *************)
\* at most MaxObservers web sockets are opened
MaxObservers == 3

\* list.remove(x): the list without the first element equal to x
RECURSIVE list_remove(_, _)
list_remove(list, x) ==
    IF list = << >> THEN << >>
    ELSE IF Head(list) = x THEN Tail(list)
    ELSE <<Head(list)>> \o list_remove(Tail(list), x)

\* OvenWatcher.notify_all from the i-th element on: the for loop takes the
\* element at the next index of self.observers as the list is at that moment;
\* wsock.send raises WebSocketError on a socket of the set closed, and the
\* handler removes it from the list being iterated.  Result: the list
\* afterwards and the sockets the message was sent to.
RECURSIVE notify_all_from(_, _, _, _)
notify_all_from(observers, i, closed, sent_to) ==
    IF i > Len(observers) THEN [observers |-> observers, sent_to |-> sent_to]
    ELSE LET wsock == observers[i]
         IN IF wsock \in closed
            THEN notify_all_from(list_remove(observers, wsock), i + 1, closed,
                                 sent_to)
            ELSE notify_all_from(observers, i + 1, closed,
                                 sent_to \cup {wsock})

notify_all(observers, closed) == notify_all_from(observers, 1, closed, {})

\* watcher.observers is OvenWatcher.observers, a list of web sockets (numbered
\* as they are opened, watcher.opened so far); watcher.closed are the
\* sockets whose peer has gone.  Of the last broadcast, watcher.before is the
\* observer list when it started and watcher.sent_to the sockets sent to.
InitObservers ==
    /\ MainRest("real")
    /\ tm = NoTimers /\ call = NoCall
    /\ temp_sensor = NoSensor
    /\ watcher = [observers |-> NoObservers, opened |-> 0, closed |-> {},
                  before |-> NoObservers, sent_to |-> {}]

\* OvenWatcher.add_observer: the backlog is sent (a failure is logged) and
\* the socket is appended.
add_observer ==
    /\ watcher.opened < MaxObservers
    /\ watcher' = [watcher EXCEPT !.opened = @ + 1,
                                  !.observers = Append(@, watcher.opened + 1)]
    /\ UNCHANGED <<main, tm, call, temp_sensor>>

\* the peer of an open web socket goes away
WebSocket_close ==
    /\ \E wsock \in (1..watcher.opened) \ watcher.closed :
          watcher' = [watcher EXCEPT !.closed = @ \cup {wsock}]
    /\ UNCHANGED <<main, tm, call, temp_sensor>>

\* OvenWatcher.run calls notify_all with the snapshot it polled
Watcher_notify_all ==
    /\ \E r \in {notify_all(watcher.observers, watcher.closed)} :
          watcher' = [watcher EXCEPT !.before = watcher.observers,
                                     !.observers = r.observers,
                                     !.sent_to = r.sent_to]
    /\ UNCHANGED <<main, tm, call, temp_sensor>>

NextObservers ==
    \/ add_observer
    \/ WebSocket_close
    \/ Watcher_notify_all

SpecObservers == InitObservers /\ [][NextObservers]_vars

\* the elements of a list
Elements(list) == { list[i] : i \in 1..Len(list) }

\* C16: a broadcast sends the snapshot to every observer registered when it
\* started whose send does not fail, and removes from the list exactly the
\* observers whose send failed: an observer whose send did not fail is
\* neither skipped nor removed.
C16_BroadcastReachesAll ==
    [][watcher'.before # watcher.before \/ watcher'.sent_to # watcher.sent_to
       \/ watcher'.observers # watcher.observers =>
          \/ watcher'.observers = Append(watcher.observers, watcher'.opened)
          \/ /\ watcher'.sent_to = Elements(watcher.observers) \ watcher.closed
             /\ watcher'.observers =
                   SelectSeq(watcher.observers,
                             LAMBDA wsock : wsock \notin watcher.closed)]_vars


(************* lib/ovenWatcher.py: lastlog_subset, a pure function **********)
\* the default of lastlog_subset's parameter, which add_observer relies on
maxpts == 50

\* logs of up to MaxLog entries are tried
MaxLog == 100

\* list[::every_nth]: the elements at the indices 0, every_nth, 2*every_nth..
Stride(list, every_nth) ==
    [i \in 1..((Len(list) + every_nth - 1) \div every_nth) |->
        list[1 + (i - 1) * every_nth]]

\* OvenWatcher.lastlog_subset
lastlog_subset(last_log) ==
    LET totalpts == Len(last_log)
        every_nth == totalpts \div (maxpts - 1)
    IN IF totalpts <= maxpts THEN last_log
       ELSE Stride(last_log, every_nth)

\* no call made yet
NoResult == << >>

\* A watcher whose log holds the snapshots of n polls, numbered in order.
InitSubset ==
    /\ MainRest("real")
    /\ tm = NoTimers /\ watcher = NoWatcher
    /\ temp_sensor = NoSensor
    /\ \E n \in 0..MaxLog :
          call = [last_log |-> [i \in 1..n |-> i], done |-> FALSE,
                  result |-> NoResult]

\* add_observer builds the backlog for a new observer
add_observer_backlog ==
    /\ ~call.done
    /\ call' = [call EXCEPT !.done = TRUE,
                            !.result = lastlog_subset(call.last_log)]
    /\ UNCHANGED <<main, tm, watcher, temp_sensor>>

NextSubset == add_observer_backlog

SpecSubset == InitSubset /\ [][NextSubset]_vars

\* C17: lastlog_subset returns the whole log when it holds at most maxpts
\* entries and otherwise a stride-sampled subset of it of at most maxpts
\* entries, whatever the length of the log.
C17_BacklogBounded ==
    call.done =>
        /\ Len(call.last_log) <= maxpts => call.result = call.last_log
        /\ Len(call.result) <= maxpts
        /\ \E every_nth \in 1..Max(1, Len(call.last_log)) :
              call.result = Stride(call.last_log, every_nth)


(************* lib/oven.py: Profile.get_target_temperature by itself ********)
\* times from -MaxT to MaxT seconds are tried
MaxT == 7

\* Profile.data of the profiles tried, sorted by time as Profile.__init__
\* leaves them; every slope, also that of the line through the last and the
\* first point, is a whole number of degrees per second.
ProfilesTried ==
    { ProfileHold, ProfileRamp,
      << <<0, 0>>, <<2, 20>>, <<4, 20>> >>,
      << <<1, 10>>, <<3, 30>>, <<5, 10>> >>,
      << <<0, 30>>, <<3, 0>> >> }

\* A profile and a time to ask its target temperature for.
InitProfile ==
    /\ MainRest("real")
    /\ tm = NoTimers /\ watcher = NoWatcher
    /\ temp_sensor = NoSensor
    /\ \E data \in ProfilesTried, time_ \in (0 - MaxT)..MaxT :
          call = [data |-> data, time_ |-> time_, done |-> FALSE, temp |-> 0]

\* update_target_temp asks the profile
Profile_get_target_temperature ==
    /\ ~call.done
    /\ call' = [call EXCEPT !.done = TRUE,
                   !.temp = get_target_temperature(call.data, call.time_)]
    /\ UNCHANGED <<main, tm, watcher, temp_sensor>>

NextProfile == Profile_get_target_temperature

SpecProfile == InitProfile /\ [][NextProfile]_vars

\* C18: for consecutive points (t0,v0), (t1,v1) of the profile and a time
\* t0 <= t <= t1, the time of the last point included, the target is
\* v0 + (t - t0) * (v1 - v0) / (t1 - t0).
C18_Interpolation ==
    call.done =>
        \A i \in 1..(Len(call.data) - 1) :
            LET t0 == call.data[i][1]
                v0 == call.data[i][2]
                t1 == call.data[i + 1][1]
                v1 == call.data[i + 1][2]
            IN (t0 <= call.time_ /\ call.time_ <= t1) =>
                  (call.temp - v0) * (t1 - t0) = (call.time_ - t0) * (v1 - v0)

\* C19: the target is 0 for every time greater than the profile's duration
\* and for every negative time.
C19_ZeroOutside ==
    call.done /\ (call.time_ > get_duration(call.data) \/ call.time_ < 0)
        => call.temp = 0


(********************* lib/pid.py: PID.compute by itself ********************)
\* MaxComputes calls of compute are made on one PID
MaxComputes == 3

\* the setpoints, the measured temperatures and the seconds between two calls
\* that are tried: errors inside, at the edge of and outside the window of
\* |kp * error| <= 100, the clock going on or back, and two calls within the
\* same second (a fraction of a second apart)
Setpoints == {0, 20, 100}
Ispoints == {16, 18, 25}
TimeDeltas == {-1, 0, 1, 2}

\* PID.__init__; call.before is the PID before the last call of compute,
\* call.setpoint and call.ispoint its arguments and call.num / call.den the
\* value it returned.
InitPID ==
    /\ MainRest("real")
    /\ tm = NoTimers /\ watcher = NoWatcher
    /\ temp_sensor = NoSensor
    /\ call = [pid |-> PID_init(0), before |-> PID_init(0), computes |-> 0,
               setpoint |-> 0, ispoint |-> 0, num |-> 0, den |-> 1]

\* heat_then_cool calls self._pid.compute(target, temperature), some
\* non-zero time after the previous call
Oven_pid_compute ==
    /\ call.computes < MaxComputes
    /\ \E setpoint \in Setpoints, ispoint \in Ispoints, d \in TimeDeltas :
          \E r \in {PID_compute(call.pid, setpoint, ispoint,
                                call.pid.lastNow + d, d = 0)} :
             call' = [pid |-> r.pid, before |-> call.pid,
                      computes |-> call.computes + 1,
                      setpoint |-> setpoint, ispoint |-> ispoint,
                      num |-> r.num, den |-> r.den]
    /\ UNCHANGED <<main, tm, watcher, temp_sensor>>

NextPID == Oven_pid_compute

SpecPID == InitPID /\ [][NextPID]_vars

\* C20: PID.compute returns a value in [0,1] for every setpoint, measured
\* temperature and non-zero elapsed time, and on a call with
\* |kp * error| > 100 the integral term keeps the value it had before.
C20_OutputInUnitInterval ==
    call.computes > 0 =>
        /\ call.den > 0
        /\ 0 <= call.num /\ call.num <= call.den
        /\ Abs(pid_kp * (call.setpoint - call.ispoint)) > window_size =>
              call.pid.iterm_ki = call.before.iterm_ki

\* a call outside the window on a PID whose integral had been wound up
C20_Witness ==
    /\ call.computes > 1
    /\ Abs(pid_kp * (call.setpoint - call.ispoint)) > window_size
    /\ call.before.iterm_ki # 0
    /\ call.pid.iterm_ki = call.before.iterm_ki
    /\ call.pid.last_err # call.before.last_err


(************* lib/temp_sensor.py: the filtered mean of the window **********)
\* windows of up to MaxSamples samples are tried
MaxSamples == 5

\* max_z of _calculate_temperature
max_z == 2

\* the sample values tried
SampleValues == {99, 100, 101, 250}

RECURSIVE sum(_)
sum(samples) ==
    IF samples = << >> THEN 0 ELSE Head(samples) + sum(Tail(samples))

\* _calculate_z_scores with mu = sum(samples)/len(samples), in exact
\* arithmetic.  With n samples of sum S, d = n*X - S and Q the sum of the
\* d*d, the z-score of X is d/n over the population standard deviation
\* sqrt(Q/n^3): its sign is that of d and its square is n*d*d / Q.  The
\* result is << >> for None (sd == 0) and else, for every sample, the sign
\* and the square of its z-score as sq_num / sq_den.
_calculate_z_scores(samples) ==
    LET n == Len(samples)
        S == sum(samples)
        Q == sum([i \in 1..n |-> (n * samples[i] - S) * (n * samples[i] - S)])
    IN IF Q = 0 THEN << >>
       ELSE [i \in 1..n |->
               [sign |-> IF n * samples[i] < S THEN -1 ELSE 1,
                sq_num |-> n * (n * samples[i] - S) * (n * samples[i] - S),
                sq_den |-> Q]]

\* z_filter keeping a sample also at abs(z_score) == max_z
z_filter_Inclusive(z_score) ==
    z_score.sq_num <= max_z * max_z * z_score.sq_den

\* z_filter with the threshold inverted: abs(z_score) < 1 / max_z
z_filter_InverseThreshold(z_score) ==
    max_z * max_z * z_score.sq_num < z_score.sq_den

\* z_filter of _calculate_temperature: abs(z_score) < max_z
z_filter(z_score) ==
    z_score.sq_num < max_z * max_z * z_score.sq_den

\* the samples of the window whose z-score passes z_filter, in order
RECURSIVE filtered_from(_, _, _)
filtered_from(samples, z_scores, i) ==
    IF i > Len(samples) THEN << >>
    ELSE (IF z_filter(z_scores[i]) THEN <<samples[i]>> ELSE << >>)
         \o filtered_from(samples, z_scores, i + 1)

\* _calculate_temperature: the mean as the fraction num / den; raised when
\* the last division is by len(filtered_samples) = 0.
_calculate_temperature(samples) ==
    IF Len(samples) = 0 THEN [num |-> 0, den |-> 1, raised |-> FALSE]
    ELSE LET z_scores == _calculate_z_scores(samples)
         IN IF z_scores = << >>
            THEN [num |-> sum(samples), den |-> Len(samples), raised |-> FALSE]
            ELSE LET filtered_samples == filtered_from(samples, z_scores, 1)
                 IN IF Len(filtered_samples) = 0
                    THEN [num |-> 0, den |-> 1, raised |-> TRUE]
                    ELSE [num |-> sum(filtered_samples),
                          den |-> Len(filtered_samples), raised |-> FALSE]

\* the windows of up to k samples
RECURSIVE Windows(_)
Windows(k) ==
    IF k = 0 THEN { << >> }
    ELSE Windows(k - 1) \cup
         { Append(w, x) : w \in { v \in Windows(k - 1) : Len(v) = k - 1 },
                          x \in SampleValues }

\* A window of samples to take the filtered mean of.
InitFilter ==
    /\ MainRest("real")
    /\ tm = NoTimers /\ watcher = NoWatcher
    /\ temp_sensor = NoSensor
    /\ \E samples \in Windows(MaxSamples) :
          call = [samples |-> samples, done |-> FALSE,
                  temp |-> [num |-> 0, den |-> 1, raised |-> FALSE]]

\* _read_temperature, its last line
TempSensor_calculate_temperature ==
    /\ ~call.done
    /\ call' = [call EXCEPT !.done = TRUE,
                            !.temp = _calculate_temperature(call.samples)]
    /\ UNCHANGED <<main, tm, watcher, temp_sensor>>

NextFilter == TempSensor_calculate_temperature

SpecFilter == InitFilter /\ [][NextFilter]_vars

\* the window of the example
ExampleWindow == <<100, 101, 99, 100, 250>>

\* The samples of w whose distance from the mean of w is less than max_z
\* population standard deviations of w (n*d*d < max_z^2 * Q in the terms
\* above), as the set of their indices.
WithinMaxZ(w) ==
    LET n == Len(w)
        S == sum(w)
        Q == sum([j \in 1..n |-> (n * w[j] - S) * (n * w[j] - S)])
    IN { i \in 1..n : n * (n * w[i] - S) * (n * w[i] - S) < max_z * max_z * Q }

\* the returned mean is the mean of the samples of w with index in keep
IsMeanOf(temp, w, keep) ==
    /\ ~temp.raised
    /\ temp.num * Cardinality(keep) =
          temp.den * sum([i \in 1..Len(w) |-> IF i \in keep THEN w[i] ELSE 0])

\* every sample with |z| >= 2.0 against the window's mean and population
\* standard deviation is left out of the returned mean, and no other
GeneralRule ==
    (call.done /\ _calculate_z_scores(call.samples) # << >>) =>
        IsMeanOf(call.temp, call.samples, WithinMaxZ(call.samples))

\* C21 as stated: the filtered mean of [100,101,99,100,250] excludes 250 and
\* is the mean of the other four samples, 100; in general every sample with
\* |z| >= 2.0 is left out of the returned mean.
C21_Excludes250 ==
    /\ (call.done /\ call.samples = ExampleWindow) =>
          /\ IsMeanOf(call.temp, call.samples, {1, 2, 3, 4})
          /\ call.temp.num = 100 * call.temp.den
    /\ GeneralRule

\* C21, amended: the filtered mean of [100,101,99,100,250] keeps 250, whose
\* z-score is below 2.0, and is the mean of all five samples, 130; in
\* general every sample with |z| >= 2.0 is left out of the returned mean.
C21_Keeps250 ==
    /\ (call.done /\ call.samples = ExampleWindow) =>
          /\ IsMeanOf(call.temp, call.samples, {1, 2, 3, 4, 5})
          /\ call.temp.num = 130 * call.temp.den
    /\ GeneralRule

\* the example window has been averaged
C21_Witness == call.done /\ call.samples = ExampleWindow


(************************ lib/max31855.py: decoding ************************)
\* a & b of two non-negative integers
RECURSIVE BitAnd(_, _)
BitAnd(a, b) ==
    IF a = 0 \/ b = 0 THEN 0
    ELSE (a % 2) * (b % 2) + 2 * BitAnd(a \div 2, b \div 2)

\* Python's ~a, and a & mask for an integer a of either sign and a
\* non-negative mask (a negative a is ~(-a - 1))
Invert(a) == 0 - a - 1
And(a, mask) ==
    IF a < 0 THEN mask - BitAnd(0 - a - 1, mask) ELSE BitAnd(a, mask)

\* A 32-bit frame is kept as its two 16-bit halves, data_32.hi and
\* data_32.lo, the model's integers having 32 bits with the sign.
\* data_32 >> k for 1 <= k < 32
ShiftRight(data_32, k) ==
    IF k >= 16 THEN data_32.hi \div (2 ^ (k - 16))
    ELSE data_32.hi * 2 ^ (16 - k) + data_32.lo \div (2 ^ k)

\* (data_32 & (1 << b)) != 0
TestBit(data_32, b) ==
    IF b >= 16 THEN (data_32.hi \div (2 ^ (b - 16))) % 2 = 1
    ELSE (data_32.lo \div (2 ^ b)) % 2 = 1

\* convert_tc_data taking the one's complement only
convert_tc_data_OnesComplement(tc_data) ==
    LET without_resolution ==
            IF And(tc_data, 2 ^ 13) # 0
            THEN (And(Invert(tc_data), 2 ^ 13 - 1)) * (0 - 1)
            ELSE And(tc_data, 2 ^ 13 - 1)
    IN [num |-> without_resolution, den |-> 4]

\* convert_tc_data: without_resolution * 0.25 as the fraction num / den
convert_tc_data(tc_data) ==
    LET without_resolution ==
            IF And(tc_data, 2 ^ 13) # 0
            THEN (And(Invert(tc_data), 2 ^ 13 - 1) + 1) * (0 - 1)
            ELSE And(tc_data, 2 ^ 13 - 1)
    IN [num |-> without_resolution, den |-> 4]

\* convert_rj_data: without_resolution * 0.0625
convert_rj_data(rj_data) ==
    LET without_resolution ==
            IF And(rj_data, 2 ^ 11) # 0
            THEN (And(Invert(rj_data), 2 ^ 11 - 1) + 1) * (0 - 1)
            ELSE And(rj_data, 2 ^ 11 - 1)
    IN [num |-> without_resolution, den |-> 16]

data_to_rj_temperature(data_32) ==
    convert_rj_data(And(ShiftRight(data_32, 4), 2 ^ 12 - 1))

data_to_tc_temperature(data_32) ==
    convert_tc_data(And(ShiftRight(data_32, 18), 2 ^ 14 - 1))

\* data_to_LinearizedTempC, lines 62 to 74: TC_temp
LinearizedTempC_TC_temp(data_32) ==
    LET temp_data == IF TestBit(data_32, 31)
                     THEN ShiftRight(data_32, 18) - 16384
                     ELSE ShiftRight(data_32, 18)
    IN [num |-> temp_data, den |-> 4]

\* data_to_LinearizedTempC, lines 77 to 85: Internal_Temp
LinearizedTempC_Internal_Temp(data_32) ==
    LET shifted == ShiftRight(data_32, 4)
        Internal_Temp == And(shifted, 2 ^ 11 - 1)
    IN [num |-> IF And(shifted, 2 ^ 11) # 0 THEN Internal_Temp - 4096
                ELSE Internal_Temp,
        den |-> 16]

\* The 32-bit frame with the given thermocouple field (bits 31..18),
\* reference-junction field (bits 15..4) and the other six bits (17, 16 and
\* 3..0) all clear or all set.
Frame(tc, rj, others_set) ==
    [hi |-> tc * 2 ^ 2 + (IF others_set THEN 3 ELSE 0),
     lo |-> rj * 2 ^ 4 + (IF others_set THEN 15 ELSE 0)]

\* the frame is read and not yet decoded
Undecoded(data) ==
    [data |-> data, done |-> FALSE,
     tc |-> [num |-> 0, den |-> 1], rj |-> [num |-> 0, den |-> 1],
     TC_temp |-> [num |-> 0, den |-> 1],
     Internal_Temp |-> [num |-> 0, den |-> 1]]

\* A frame read from the SPI bus.  The frames tried: every thermocouple
\* field with the reference-junction field clear or set, and every
\* reference-junction field with some thermocouple fields.
InitDecode ==
    /\ MainRest("real")
    /\ tm = NoTimers /\ watcher = NoWatcher
    /\ temp_sensor = NoSensor
    /\ \/ \E tc \in 0..(2 ^ 14 - 1), rj \in {0, 2 ^ 12 - 1}, o \in BOOLEAN :
             call = Undecoded(Frame(tc, rj, o))
       \/ \E tc \in {0, 400, 2 ^ 13, 2 ^ 14 - 1}, rj \in 0..(2 ^ 12 - 1),
             o \in BOOLEAN :
             call = Undecoded(Frame(tc, rj, o))

\* the frame is decoded by data_to_tc_temperature, data_to_rj_temperature
\* and data_to_LinearizedTempC
MAX31855_decode ==
    /\ ~call.done
    /\ call' = [call EXCEPT
          !.done = TRUE,
          !.tc = data_to_tc_temperature(call.data),
          !.rj = data_to_rj_temperature(call.data),
          !.TC_temp = LinearizedTempC_TC_temp(call.data),
          !.Internal_Temp = LinearizedTempC_Internal_Temp(call.data)]
    /\ UNCHANGED <<main, tm, watcher, temp_sensor>>

NextDecode == MAX31855_decode

SpecDecode == InitDecode /\ [][NextDecode]_vars

\* bits hi..lo of the frame as a number, for hi..lo within one half
Field(data, hi, lo) ==
    IF lo >= 16 THEN (data.hi \div (2 ^ (lo - 16))) % (2 ^ (hi - lo + 1))
    ELSE (data.lo \div (2 ^ lo)) % (2 ^ (hi - lo + 1))

\* C22: with v the 14-bit thermocouple field, bits 31..18 of the frame, the
\* decoded junction temperature is 0.25 * v when bit 13 of v is clear and
\* 0.25 * (v - 16384) when it is set; 0x190 decodes to 100.0 and every
\* field with the sign bit set decodes to a negative value.
C22_ThermocoupleDecode ==
    call.done =>
        LET v == Field(call.data, 31, 18)
        IN /\ call.tc.den = 4
           /\ v < 2 ^ 13 => call.tc.num = v
           /\ v >= 2 ^ 13 => call.tc.num = v - 16384 /\ call.tc.num < 0
           /\ v = 400 => call.tc.num = 100 * call.tc.den

\* a field with the sign bit set has been decoded: -100.0
C22_Witness ==
    /\ call.done
    /\ Field(call.data, 31, 18) = 2 ^ 14 - 400
    /\ call.tc.num = 0 - 400


\* C30: for every 32-bit frame the reference-junction temperature used
\* inside data_to_LinearizedTempC equals data_to_rj_temperature(frame), the
\* 12-bit two's-complement value of bits 15..4 times 0.0625, and the
\* thermocouple temperature it uses equals data_to_tc_temperature(frame),
\* for negative as well as positive field values.
C30_LinearizedUsesDecodedFields ==
    call.done =>
        LET w == Field(call.data, 15, 4)
        IN /\ call.rj.den = 16
           /\ call.rj.num = (IF w >= 2 ^ 11 THEN w - 2 ^ 12 ELSE w)
           /\ call.Internal_Temp = call.rj
           /\ call.TC_temp = call.tc


(****************** lib/max31855.py: MAX31855.get, the flags ****************)
\* MaxReads frames are read by one MAX31855
MaxReads == 2

\* the four flags of a MAX31855
Flags(noConnection, shortToGround, shortToVCC, unknownError) ==
    [noConnection |-> noConnection, shortToGround |-> shortToGround,
     shortToVCC |-> shortToVCC, unknownError |-> unknownError]

\* MAX31855._check_errors with the flags left as they were when the fault
\* bit is clear
_check_errors_Latched(self, data_32) ==
    LET anyErrors == TestBit(data_32, 16)
        noConnection == TestBit(data_32, 0)
        shortToGround == TestBit(data_32, 1)
        shortToVCC == TestBit(data_32, 2)
    IN IF anyErrors
       THEN Flags(noConnection, shortToGround, shortToVCC,
                  ~(noConnection \/ shortToGround \/ shortToVCC))
       ELSE self

\* MAX31855._check_errors: the flags of self afterwards
_check_errors(self, data_32) ==
    LET anyErrors == TestBit(data_32, 16)
        noConnection == TestBit(data_32, 0)
        shortToGround == TestBit(data_32, 1)
        shortToVCC == TestBit(data_32, 2)
    IN IF anyErrors
       THEN Flags(noConnection, shortToGround, shortToVCC,
                  ~(noConnection \/ shortToGround \/ shortToVCC))
       ELSE Flags(FALSE, FALSE, FALSE, FALSE)

\* The frame with the given thermocouple field, a reference junction at
\* 25 degrees, the fault bit D16 and the bits D2, D1, D0.
FaultFrame(tc, d16, d2, d1, d0) ==
    [hi |-> tc * 2 ^ 2 + (IF d16 THEN 1 ELSE 0),
     lo |-> 400 * 2 ^ 4 + (IF d2 THEN 4 ELSE 0) + (IF d1 THEN 2 ELSE 0)
            + (IF d0 THEN 1 ELSE 0)]

\* no frame read yet
NoFrame == [hi |-> 0, lo |-> 0]

\* MAX31855.__init__; call.self are the flags of the MAX31855, call.before
\* those it had before the last get() and call.data the frame that get()
\* read.
InitGet ==
    /\ MainRest("real")
    /\ tm = NoTimers /\ watcher = NoWatcher
    /\ temp_sensor = NoSensor
    /\ call = [self |-> Flags(FALSE, FALSE, FALSE, FALSE),
               before |-> Flags(FALSE, FALSE, FALSE, FALSE),
               data |-> NoFrame, reads |-> 0]

\* MAX31855.get: a frame is read from the SPI bus and checked
MAX31855_get ==
    /\ call.reads < MaxReads
    /\ \E tc \in {400, 2 ^ 14 - 400}, d16 \in BOOLEAN, d2 \in BOOLEAN,
          d1 \in BOOLEAN, d0 \in BOOLEAN :
          \E data \in {FaultFrame(tc, d16, d2, d1, d0)} :
             call' = [self |-> _check_errors(call.self, data),
                      before |-> call.self,
                      data |-> data, reads |-> call.reads + 1]
    /\ UNCHANGED <<main, tm, watcher, temp_sensor>>

NextGet == MAX31855_get

SpecGet == InitGet /\ [][NextGet]_vars

\* C23: after get() has decoded a frame, all four flags are false if the
\* fault bit D16 is clear; if it is set, noConnection = D0,
\* shortToGround = D1, shortToVCC = D2 and unknownError holds exactly when
\* D0, D1 and D2 are all clear.  The flags depend on the frame read last
\* only.
C23_FlagsOfLastFrame ==
    call.reads > 0 =>
        LET D(b) == Field(call.data, b, b) = 1
        IN IF D(16)
           THEN call.self = Flags(D(0), D(1), D(2), ~D(0) /\ ~D(1) /\ ~D(2))
           ELSE call.self = Flags(FALSE, FALSE, FALSE, FALSE)

\* a frame without fault was read after one that reported an open circuit
C23_Witness ==
    /\ call.reads = 2
    /\ call.before.noConnection
    /\ Field(call.data, 16, 16) = 0 /\ Field(call.data, 0, 0) = 1
    /\ ~call.self.noConnection


(********************* lib/oven_time.py: Time.speed_set *********************)
\* C24: virtual time is continuous across a rate change: a step that sets
\* the speed (Time.speed_set, called by an accepted _run_profile) at a real
\* instant does not change what Time.now() returns at that instant, whatever
\* the speed before and however long it was in force.
C24_NowContinuous ==
    [][clock' = clock =>
          Time_now(Time_reference_time)' = Time_now(Time_reference_time)]_vars


(************* lib/ovenWatcher.py: who writes the watcher's state ***********)
\* C25: the OvenWatcher's log, recording flag and observer list are written
\* by the watcher thread only, in its run loop; no other thread (the web
\* thread calling record or add_observer) changes them.
C25_WatcherThreadOnly ==
    [][<<watcher.last_log, watcher.recording, watcher.observers>>' #
          <<watcher.last_log, watcher.recording, watcher.observers>>
       => watcher.pc["watcher"] = "wait" /\ watcher'.pc["watcher"] = "poll"]_vars


(******************* lib/oven.py: the order of a running tick ***************)
\* The steps of Oven._update_oven in the order it calls them.
TickOrder ==
    <<"catch_up", "runtime", "target", "heat", "emergency_check",
      "schedule_check">>

IsTickStep(e) == \E k \in 1..Len(TickOrder) : TickOrder[k] = e

\* The steps the last processed message performed, in the order performed.
TickSteps == SelectSeq(oven.events, IsTickStep)

IsPrefix(s, t) == Len(s) <= Len(t) /\ \A k \in 1..Len(s) : s[k] = t[k]

\* The positions at which the running tick of the last processed message
\* armed the timer (an accepted RunProfile's reset arms it before the tick).
TickArms ==
    { i \in 1..Len(oven.events) :
        oven.events[i] = "timer_start" /\ Follows(i, {"catch_up"}) }

\* Armed by heat_then_cool: after the heating decision began and before the
\* emergency check.
ArmedByHeating(i) == Follows(i, {"heat"}) /\ ~Follows(i, {"emergency_check"})

\* Armed by the _reset of reset_if_emergency or reset_if_schedule_ended.
ArmedByReset(i) == Follows(i, {"shutting_down", "schedule_ended"})

\* C26 as stated: a running tick performs catch-up evaluation, runtime
\* update, target recompute, heating decision, emergency check and
\* schedule-end check in this order, arms the timer only after all of them,
\* and arms it at most once.
C26_ArmedLastOnce ==
    Has("catch_up") =>
        /\ IsPrefix(TickSteps, TickOrder)
        /\ \A i \in TickArms : Follows(i, {"schedule_check"})
        /\ Cardinality(TickArms) <= 1

\* C26 amended: a running tick performs its steps in the order catch-up
\* evaluation, runtime update, target recompute, heating decision, emergency
\* check, schedule-end check; the timer is armed by the heating decision,
\* before the emergency check, at most once, and once more only by the reset
\* of a SimulatedOven's tick that ends the run.
C26_ArmedByHeating ==
    Has("catch_up") =>
        /\ IsPrefix(TickSteps, TickOrder)
        /\ \A i \in TickArms :
              ArmedByHeating(i) \/ (kind = "sim" /\ ArmedByReset(i))
        /\ Cardinality({ i \in TickArms : ArmedByHeating(i) }) <= 1
        /\ Cardinality({ i \in TickArms : ~ArmedByHeating(i) }) <= 1

C26_Witness ==
    /\ kind = "sim"
    /\ last.code = "EXPIRED_TIMER" /\ last.was = "RUNNING"
    /\ TickSteps = TickOrder
    /\ Has("shutting_down")
    /\ Cardinality(TickArms) = 2


(*************** lib/oven.py: RealOven.heat_then_cool's cycle ***************)
\* This step is a RealOven's running tick that computed a duty fraction d
\* with 0 < d < 1 (an ON interval strictly inside the tick).
PartialDutyTick ==
    /\ kind = "real"
    /\ Processed("EXPIRED_TIMER") \/ Processed("RUN_PROFILE")
    /\ Has("pid")' /\ ~Has("raised")'
    /\ 0 < oven'.computed /\ oven'.computed < sensor_time_wait

\* This step is a RealOven's running tick on a timer expiry that finds the
\* output ON for an interval shorter than the tick.
OffHalfTick ==
    /\ kind = "real"
    /\ Processed("EXPIRED_TIMER")
    /\ oven.state = "RUNNING"
    /\ oven.output = "True"
    /\ 0 < oven.heat_on_secs /\ oven.heat_on_secs < sensor_time_wait

\* This step is a RealOven's running tick on a timer expiry that finds the
\* output OFF.
DecisionTick ==
    /\ kind = "real"
    /\ Processed("EXPIRED_TIMER")
    /\ oven.state = "RUNNING"
    /\ oven.output # "True"

\* The tick switches the output ON and, unless it ends the run, leaves it ON
\* with the timer armed for the ON interval.
OnForDuty ==
    /\ Has("heat_on")'
    /\ oven'.state = "RUNNING" =>
          /\ oven'.output = "True"
          /\ oven'.timer = clock + oven'.computed

\* The tick switches the output OFF without invoking the PID and, unless it
\* ends the run, arms the timer for the rest of the tick.
OffForRemainder ==
    /\ Has("heat_off")' /\ ~Has("pid")'
    /\ oven'.state = "RUNNING" =>
          /\ oven'.output = "False"
          /\ oven'.timer = clock + (sensor_time_wait - oven.heat_on_secs)

\* The timer armed for the ON interval is the one that expired: none armed
\* since is still to fire at a later time.
OnIntervalElapsed == oven.timer = NoTimer \/ clock >= oven.timer

MaxWindow == 2

\* the number of sub-ticks a sensor is followed for
MaxSubTicks == 5

\* time.time() when the sensor is constructed: far more than two time steps
\* after the _bad_stamp of 0 the class starts with
Epoch == 2 * (MaxWindow + 1) + 1

\* the values Thermocouple.get() returns
ReadValues == {100, 250}

\* the four fault flags of the Thermocouple
ThermocoupleFlags ==
    [noConnection : BOOLEAN, shortToGround : BOOLEAN,
     shortToVCC : BOOLEAN, unknownError : BOOLEAN]

\* is_bad_value with the short-circuit flags honoured whatever the
\* configuration says.
is_bad_value_ShortsAlways(honour_short_errors, flags) ==
    \/ flags.noConnection \/ flags.unknownError
    \/ flags.shortToGround \/ flags.shortToVCC

\* is_bad_value as _read_temperature computes it.
is_bad_value(honour_short_errors, flags) ==
    \/ flags.noConnection \/ flags.unknownError
    \/ honour_short_errors /\ (flags.shortToGround \/ flags.shortToVCC)

\* The error counters are due to roll over at the time `now`, reached at or
\* after the previous roll-over plus two time steps.
rollover_due_AtTwoSteps(ts, now) ==
    (now - ts.bad_stamp) >= (ts.temperature_average_samples * 2)

\* The condition "time is up" of _read_temperature.
rollover_due(ts, now) ==
    (now - ts.bad_stamp) > (ts.temperature_average_samples * 2)

\* bad_percent as a fraction num / den.
Percent(bad_count, ok_count) ==
    IF bad_count + ok_count # 0
    THEN [num |-> bad_count * 100, den |-> bad_count + ok_count]
    ELSE [num |-> 0, den |-> 1]

\* TempSensorReal._read_temperature at the time `now`, the thermocouple
\* answering with temp and flags.
_read_temperature(ts, now, temp, flags) ==
    LET rolled == rollover_due(ts, now)
        a == IF rolled
             THEN [ts EXCEPT !.bad_percent = Percent(ts.bad_count, ts.ok_count),
                             !.bad_count = 0,
                             !.ok_count = 0,
                             !.bad_stamp = now]
             ELSE ts
        bad == is_bad_value(ts.honour_short_errors, flags)
        appended == Append(ts.temps, temp)
        temps == IF bad THEN ts.temps
                 ELSE IF Len(appended) > ts.temperature_average_samples
                 THEN Tail(appended) ELSE appended
    IN [a EXCEPT !.flags = flags,
                 !.temps = temps,
                 !.ok_count = IF bad THEN @ ELSE @ + 1,
                 !.bad_count = IF bad THEN @ + 1 ELSE @,
                 !.temperature = _calculate_temperature(temps),
                 !.time = now,
                 !.reads = @ + 1]

\* TempSensorReal.__init__ with the class's defaults; run() starts with an
\* empty window.
InitSensor ==
    /\ MainRest("real")
    /\ tm = NoTimers /\ watcher = NoWatcher /\ call = NoCall
    /\ \E n \in 1..MaxWindow, honour \in BOOLEAN :
          temp_sensor =
              [temperature_average_samples |-> n,
               honour_short_errors |-> honour,
               temps |-> << >>,
               temperature |-> [num |-> 0, den |-> 1, raised |-> FALSE],
               bad_count |-> 0, ok_count |-> 0, bad_stamp |-> 0,
               bad_percent |-> [num |-> 0, den |-> 1],
               flags |-> [noConnection |-> FALSE, shortToGround |-> FALSE,
                          shortToVCC |-> FALSE, unknownError |-> FALSE],
               time |-> Epoch, reads |-> 0]

\* TempSensorReal.run, the EXPIRED_TIMER branch: the timer armed for
\* _sleep_secs has fired one sub-tick after it was armed, or later.
TempSensorReal_run ==
    /\ temp_sensor.reads < MaxSubTicks
    /\ \E late \in {0, 1}, temp \in ReadValues, flags \in ThermocoupleFlags :
          temp_sensor' = _read_temperature(temp_sensor,
                                           temp_sensor.time + 1 + late,
                                           temp, flags)
    /\ UNCHANGED <<main, tm, watcher, call>>

NextSensor == TempSensorReal_run

SpecSensor == InitSensor /\ [][NextSensor]_vars

\* The thermocouple flags read in this step call for the reading to be
\* rejected.
MustReject ==
    \/ temp_sensor'.flags.noConnection \/ temp_sensor'.flags.unknownError
    \/ /\ temp_sensor.honour_short_errors
       /\ temp_sensor'.flags.shortToGround \/ temp_sensor'.flags.shortToVCC

\* This step's read rolled the error counters over.
RolledOver == temp_sensor'.bad_stamp # temp_sensor.bad_stamp

\* The counters as this step's read found them after its roll-over, if any.
BadBefore == IF RolledOver THEN 0 ELSE temp_sensor.bad_count
OkBefore == IF RolledOver THEN 0 ELSE temp_sensor.ok_count

\* The last n elements of the sequence s.
LastN(s, n) == IF Len(s) <= n THEN s ELSE SubSeq(s, Len(s) - n + 1, Len(s))

\* C28: on every sub-tick the reading is rejected exactly when noConnection or
\* unknownError is set, or honour_short_errors is configured and
\* shortToGround or shortToVCC is set; a rejected reading increments
\* bad_count and leaves the window unchanged, an accepted one increments
\* ok_count and is appended with the oldest value dropped, so that the window
\* never holds more than temperature_average_samples values.
C28_RejectOrAppend ==
    [][/\ MustReject =>
             /\ temp_sensor'.bad_count = BadBefore + 1
             /\ temp_sensor'.ok_count = OkBefore
             /\ temp_sensor'.temps = temp_sensor.temps
       /\ ~MustReject =>
             /\ temp_sensor'.ok_count = OkBefore + 1
             /\ temp_sensor'.bad_count = BadBefore
             /\ temp_sensor'.temps # << >>
             /\ temp_sensor'.temps =
                   LastN(Append(temp_sensor.temps,
                                temp_sensor'.temps[Len(temp_sensor'.temps)]),
                         temp_sensor.temperature_average_samples)
       /\ Len(temp_sensor'.temps) <= temp_sensor.temperature_average_samples
      ]_vars

\* A full window has taken one more accepted reading, with the short-circuit
\* flag set and not honoured, after a rejected one.
C28_Witness ==
    /\ ~temp_sensor.honour_short_errors
    /\ temp_sensor.flags.shortToGround
    /\ ~temp_sensor.flags.noConnection /\ ~temp_sensor.flags.unknownError
    /\ temp_sensor.temperature_average_samples = MaxWindow
    /\ Len(temp_sensor.temps) = MaxWindow
    /\ temp_sensor.bad_count = 1
    /\ temp_sensor.ok_count = MaxWindow + 1


\* C29: bad_percent changes only at a roll-over, which happens on a sub-tick
\* exactly when more than two time steps have passed since the previous one;
\* it then becomes bad / (bad + ok) * 100 of the counts accumulated since the
\* previous roll-over (0 when both are zero) and both counters restart from
\* zero, this reading being the first counted; bad_percent is always within
\* [0, 100].  A time step is temperature_average_samples sub-ticks.
C29_BadPercentAtRollover ==
    [][LET bad == temp_sensor.bad_count
           ok == temp_sensor.ok_count
           after == temp_sensor'.bad_percent
       IN /\ RolledOver <=>
                temp_sensor'.time - temp_sensor.bad_stamp >
                    2 * temp_sensor.temperature_average_samples
          /\ ~RolledOver => after = temp_sensor.bad_percent
          /\ RolledOver =>
                /\ bad + ok = 0 => after.num = 0
                /\ bad + ok # 0 => after.num * (bad + ok) = bad * 100 * after.den
                /\ temp_sensor'.bad_count + temp_sensor'.ok_count = 1
          /\ after.den > 0
          /\ 0 <= after.num /\ after.num <= 100 * after.den]_vars

\* A roll-over after the first has just found both bad and good readings.
C29_Witness ==
    /\ temp_sensor.reads > 1
    /\ temp_sensor.bad_stamp = temp_sensor.time
    /\ 0 < temp_sensor.bad_percent.num
    /\ temp_sensor.bad_percent.num < 100 * temp_sensor.bad_percent.den


(***************** lib/pid.py: the integral term of PID.compute *************)
\* The error and the elapsed seconds of the last call of compute.
LastError == call.setpoint - call.ispoint
LastElapsed == call.pid.lastNow - call.before.lastNow

\* The last call was made with the proportional action inside the window.
InsideWindow == call.computes > 0 /\ Abs(pid_kp * LastError) <= window_size

\* C31 as stated: on a call with |kp * error| <= 100 the integral term
\* increases by error * elapsedSeconds * ki.  The model keeps iterm * ki, so
\* the increase of iterm times ki is compared with the claimed one times ki.
C31_IncreaseTimesKi ==
    InsideWindow =>
        call.pid.iterm_ki - call.before.iterm_ki =
            (LastError * LastElapsed * pid_ki) * pid_ki

\* C31 amended: on a call with |kp * error| <= 100 the integral term
\* increases by exactly error * elapsedSeconds / ki: the increase of iterm
\* times ki is error * elapsedSeconds.
C31_IncreaseOverKi ==
    InsideWindow =>
        call.pid.iterm_ki - call.before.iterm_ki = LastError * LastElapsed

C31_Witness ==
    /\ InsideWindow
    /\ call.computes > 1
    /\ LastError # 0 /\ LastElapsed > 0
    /\ call.before.iterm_ki # 0


(********* kiln-controller.py: run_profile followed by record ***************)
\* The Oven thread takes the GET_STATE message that OvenWatcher.record sent.
RecordGetState == GetStateStep /\ Head(queue).reply = "web"

\* OvenWatcher.record returns in this step.
RecordReturns == watcher.pc["web"] = "wait" /\ watcher'.pc["web"] = "idle"

\* C32: after run_profile(profile) and record(profile) on the same thread the
\* watcher's log holds exactly one snapshot, computed by the oven after it
\* processed the RUN_PROFILE message: when the Oven thread answers record's
\* GET_STATE no RUN_PROFILE is left in its queue, the answer is the oven's
\* state at that moment, and when record returns the log is that answer alone.
C32_RecordSeedsNewRun ==
    [][/\ RecordGetState =>
             /\ \A i \in 1..Len(queue) : queue[i].code # "RUN_PROFILE"
             /\ watcher'.q["web"] = <<_runtime_info(oven)>>
       /\ RecordReturns =>
             watcher'.last_log = <<Head(watcher.q["web"])>>]_vars

\* record has returned after a second request, with the snapshot of a
\* running oven as the only entry of the log.
C32_Witness ==
    /\ watcher.pc["web"] = "idle"
    /\ sent = MaxRequests
    /\ watcher.last_profile # NoProfile
    /\ Len(watcher.last_log) = 1
    /\ watcher.last_log[1].state = capitalize("RUNNING")
    /\ watcher.last_log[1].runtime > 0


(****************** lib/oven.py: RealOven outputs and state *****************)
\* C33: a RealOven that is Idle after processing a message has the heat
\* output and the master enable output off and no timer armed; the heat
\* output is ON only while the state is Running.
C33_IdleOutputsOff ==
    kind = "real" =>
        /\ oven.state = "IDLE" =>
              /\ oven.output = "False" /\ oven.master_output = "False"
              /\ oven.timer = NoTimer
        /\ oven.output = "True" => oven.state = "RUNNING"

\* An abort has just ended a run whose heater was on.
C33_Witness ==
    /\ kind = "real"
    /\ last.code = "ABORT_RUN" /\ last.was = "RUNNING"
    /\ oven.state = "IDLE"
    /\ oven.heat_on_secs > 0
    /\ Has("heat_off") /\ Has("master_off") /\ Has("timer_stop")


(*********** lib/timer.py and lib/oven.py: superseded expiries **************)
\* The EXPIRED_TIMER messages waiting in the oven's queue.
QueuedExpiries ==
    Cardinality({ i \in 1..Len(queue) : queue[i].code = "EXPIRED_TIMER" })

\* The fires of the oven's OvenTimer that are still to come.
PendingFires == IF oven.timer # NoTimer THEN 1 ELSE 0

\* C34: an expiry superseded by a later stop() or start() never causes a
\* tick: at any time the pending timer fires and the queued EXPIRED_TIMER
\* messages of the oven are at most one together.
C34_OneExpiryAtMost == PendingFires + QueuedExpiries <= 1


(************** lib/oven.py: a refused RunProfile during a run **************)
\* What a refused RunProfile is claimed to leave alone: the state, the
\* profile, the runtime, the catch-up state, the memory of the PID and the
\* outputs.
RunState(o) ==
    <<o.state, o.profile, o.runtime_secs, o.total_time_secs,
      o.total_catch_up_secs, o.are_catching_up,
      o.pid.iterm_ki, o.pid.last_err, o.output, o.master_output>>

\* C35: a RunProfile refused because the sensor reports a fault leaves the
\* oven unchanged, also when a run is in progress: the run stays Running
\* with its profile, runtime, catch-up state, PID state and outputs.
C35_RefusedLeavesRun ==
    [][(Processed("RUN_PROFILE") /\ Has("refused")') =>
          RunState(oven)' = RunState(oven)]_vars


(************* lib/oven.py: the heater on an emergency tick *****************)
\* C36: RealOven with ignore_emergencies false: on a running tick whose
\* sensor status shows an emergency condition (temperature at or above the
\* shutoff temperature, lost connection, unknown error, bad_percent over the
\* limit) the heat output is never commanded ON.
C36_NoHeatOnEmergencyTick ==
    (kind = "real" /\ ~cfg.ignore_emergencies /\ Has("heat")
        /\ should_reset(sensor)) => ~Has("heat_on")


(********** lib/oven.py: the heater is always under a pending tick **********)
\* C37: RealOven: whenever the heat output is ON, a timer fire is pending or
\* an EXPIRED_TIMER message is queued, and the Oven thread is still
\* processing messages; also after a PID.compute that failed with zero
\* elapsed time on a tick that found the heater at 100% duty.
C37_HeaterSupervised ==
    (kind = "real" /\ oven.output = "True") =>
        /\ PendingFires + QueuedExpiries >= 1
        /\ oven.alive


(*************** lib/oven.py: a run ends by schedule completion *************)
\* C38: with catch-up disabled, no emergency and no control message after the
\* accepted RunProfile, the run eventually returns to Idle by schedule
\* completion, every armed timer firing and the clock advancing.  Stated in
\* the form a finite run refutes: as long as such a run is Running its next
\* tick is on its way (a timer fire is pending or an EXPIRED_TIMER is
\* queued) and the Oven thread is there to process it; otherwise the state
\* can never change again.
C38_RunCanComplete ==
    (/\ oven.state = "RUNNING"
     /\ ~cfg.kiln_must_catch_up
     /\ ~should_reset(sensor)
     /\ sent = 1) =>
        /\ oven.alive
        /\ PendingFires + QueuedExpiries >= 1


(************ lib/oven.py: the points get_target_temperature pairs **********)
\* The target temp at the time time_ is the interpolation between the points
\* i and i + 1 of data, whose times bracket time_.
InterpolatesAt(data, i, time_, temp) ==
    LET t0 == data[i][1]
        v0 == data[i][2]
        t1 == data[i + 1][1]
        v1 == data[i + 1][2]
    IN /\ t0 <= time_ /\ time_ <= t1
       /\ (temp - v0) * (t1 - t0) = (time_ - t0) * (v1 - v0)

\* C39: for every t the target temperature is either 0 or the interpolation
\* between two points adjacent in the time-sorted schedule whose times
\* bracket t; for t before the first point the last point is never paired
\* with the first.
C39_AdjacentBracketingPoints ==
    call.done =>
        \/ call.temp = 0
        \/ \E i \in 1..(Len(call.data) - 1) :
              InterpolatesAt(call.data, i, call.time_, call.temp)


(********* lib/temp_sensor.py: the filtered mean never divides by zero *******)
\* every sample of the window has the same value
AllIdentical(w) == \A i, j \in 1..Len(w) : w[i] = w[j]

\* C40: _calculate_temperature never divides by zero: an empty window gives
\* 0, a window of identical values gives the unfiltered mean, and in any
\* other window at least one sample has |z| < 2.0, so that the filtered set
\* that is averaged is never empty.
C40_NeverDividesByZero ==
    call.done =>
        /\ ~call.temp.raised
        /\ Len(call.samples) = 0 => call.temp.num = 0
        /\ (Len(call.samples) > 0 /\ AllIdentical(call.samples)) =>
              IsMeanOf(call.temp, call.samples, 1..Len(call.samples))
        /\ ~AllIdentical(call.samples) =>
              /\ WithinMaxZ(call.samples) # {}
              /\ IsMeanOf(call.temp, call.samples, WithinMaxZ(call.samples))

\* a window of differing values, one of them filtered out, has been averaged
C40_Witness ==
    /\ call.done
    /\ ~AllIdentical(call.samples)
    /\ WithinMaxZ(call.samples) # 1..Len(call.samples)

====
